---- MODULE Spec2Model ----
(***************************************************************************)
(* A model of clawback: backup, verify and restore of an agent workspace,  *)
(* the path remap engine, the gateway credential extractor and the         *)
(* scrypt + AES-256-GCM envelopes.                                         *)
(*                                                                         *)
(* Conventions.                                                            *)
(*  - A text is a sequence of tokens.  The tokens are the path segments    *)
(*    "/u" and "/w" (each one '/' followed by one character), the two      *)
(*    placeholders "${WORKSPACE}" and "${HOME}", and a few words that      *)
(*    contain neither '/' nor '$'.  On such texts String.replaceAll of a   *)
(*    value made of path segments, or of a placeholder, matches exactly    *)
(*    at token boundaries, so the token-level ReplaceAll below computes    *)
(*    what the character-level one computes.                               *)
(*  - A relative path is the sequence of its segments, so split('/') is    *)
(*    the identity and a template `${a}/${b}` is a concatenation.          *)
(*  - SHA-256 is collision free: the digest of a content is the content    *)
(*    wrapped in a record.                                                 *)
(***************************************************************************)
EXTENDS Integers, Sequences, FiniteSets, TLC

\* Longest text drawn as input of the remap functions.
MaxTextLen == 3
\* Longest EnvMap value (in path segments) drawn as input of the remap functions.
MaxValLen == 2

VARIABLES
    rmText,      \* remap: the input text t
    rmMap,       \* remap: the EnvMap m, entries in insertion order
    rmApplied,   \* remap: applyRemap(t, m)
    rmRestored,  \* remap: unapplyRemap(applyRemap(t, m), m)
    rmPc,        \* remap: "idle" | "input" | "applied" | "unapplied"
    crKind,      \* crypto: "vault" | "archive"
    crPayload,   \* crypto: the payload given to the encrypt function
    crPassword,  \* crypto: the password it was encrypted with
    crEnvelope,  \* crypto: the buffer the encrypt function returned
    crResult,    \* crypto: what the decrypt function returned or threw
    crPc,        \* crypto: "idle" | "input" | "encrypted" | "decrypted"
    gcText,      \* credentials: the config text given to extractGatewayCredentials
    gcOut,       \* credentials: the GatewayExtraction it returned
    gcPc,        \* credentials: "idle" | "input" | "extracted" | "injected"
    gcBack,      \* credentials: the text injectGatewayCredentials returned
    fs,          \* the directories: root path -> [exists, files]
    phase,       \* "idle" | "ready" | "failed" | "archived" | "verified" | "restored" | "diffed"
    tampered,    \* the name of the entry altered after createBackup, or NoPath
    bkOptions,   \* the BackupOptions of the createBackup call
    bkResult,    \* what createBackup returned or threw
    archiveFile, \* the archive file: its tar entries in the order written
    vResult,     \* what verifyArchive returned
    rOptions,    \* the RestoreOptions of the restoreBackup call
    rBefore,     \* the directories when restoreBackup was called
    rResult,     \* what restoreBackup returned or threw
    rWrites,     \* the writeFileSync calls of step 7: [at, path, archived, written]
    rEffects,    \* what restoreBackup did besides: "mkdir", "write", "decrypt", "prompt", "artifacts"
    dResult,     \* what diffArchiveVsWorkspace returned or threw
    dfOld,       \* diff: archive A, the baseline
    dfNew,       \* diff: archive B
    dfResult,    \* diff: what diffArchiveVsArchive returned or threw
    dfPc,        \* diff: "idle" | "input" | "archives" | "workspace"
    scTree,      \* scan: the directory view of the workspace
    scExclude,   \* scan: options.exclude
    scInclude,   \* scan: options.include
    scResult,    \* scan: what createManifest returned or threw
    scAgain,     \* scan: what the second createManifest call returned or threw
    scPc,        \* scan: "idle" | "input" | "scanned" | "rescanned"
    opKind,      \* open: "vault" | "archive"
    opPlain,     \* open: the payload or plain container that was sealed
    opSecret,    \* open: the password it was sealed with
    opBuffer,    \* open: the buffer, or the bytes of the file at the archive path
    opGiven,     \* open: the password argument, <<>> when none is passed
    opResult,    \* open: what the decrypt function or resolveArchive returned or threw
    opTemp,      \* open: the temporary files, path -> bytes
    runStart,    \* run: the files of the workspace when postRestoreRun is called
    runFiles,    \* run: the files of the workspace
    runExported, \* run: the cron jobs the backup exported, Null without a backup
    runEnv,      \* run: what the openclaw commands and the user answer
    runLog,      \* run: the commands run and the prompts shown, in order
    runOut,      \* run: the lines written
    runResult,   \* run: Null, or how postRestoreRun resolved or rejected
    cliCommand,  \* cli: "restore" | "verify" | "diff" | "info"
    cliFiles,    \* cli: the bytes of <file> and of [fileB], Null when not given
    cliPassword, \* cli: --password, <<>> when not given
    cliTyped,    \* cli: what the user types at the password prompt
    cliBody,     \* cli: how the command's work on the opened archive ends
    cliTemp,     \* cli: the temporary directory of each archive, path -> bytes
    cliExit,     \* cli: the exit code of the process, Null while it runs
    cliStderr,   \* cli: the message written to stderr, "" when none
    cliPc,       \* cli: "idle" | "input" | "exited"
    runPc,       \* run: "idle" | "check" | "key" | "cron" | "start" | "health" | "done"
    opPc         \* open: "idle" | "input" | "decrypted" | "resolved" | "cleaned"

remapVars == <<rmText, rmMap, rmApplied, rmRestored, rmPc>>
cryptoVars == <<crKind, crPayload, crPassword, crEnvelope, crResult, crPc>>
credVars == <<gcText, gcOut, gcPc, gcBack>>
mainVars == <<fs, phase, tampered, bkOptions, bkResult, archiveFile, vResult,
              rOptions, rBefore, rResult, rWrites, rEffects, dResult>>
diffVars == <<dfOld, dfNew, dfResult, dfPc>>
scanVars == <<scTree, scExclude, scInclude, scResult, scAgain, scPc>>
openVars == <<opKind, opPlain, opSecret, opBuffer, opGiven, opResult, opTemp, opPc>>
cliVars == <<cliCommand, cliFiles, cliPassword, cliTyped, cliBody, cliTemp, cliExit, cliStderr, cliPc>>
runVars == <<runStart, runFiles, runExported, runEnv, runLog, runOut, runResult, runPc>>

vars == <<remapVars, cryptoVars, credVars, mainVars, diffVars, scanVars, openVars, runVars, cliVars>>

(***************************************************************************)
(* Generic helpers                                                         *)
(***************************************************************************)
SeqsUpTo(S, n) == UNION {[1..k -> S] : k \in 0..n}

IsPrefix(p, s) == Len(p) <= Len(s) /\ SubSeq(s, 1, Len(p)) = p

\* s contains pat as a contiguous run (String.includes).
Includes(s, pat) ==
    \E i \in 0..(Len(s) - Len(pat)) : SubSeq(s, i + 1, i + Len(pat)) = pat

\* String.replaceAll(pat, rep) for a non-empty pat: leftmost matches, left to
\* right, not overlapping, the replacement is not scanned again.
RECURSIVE ReplaceAll(_, _, _)
ReplaceAll(s, pat, rep) ==
    IF s = <<>> THEN <<>>
    ELSE IF IsPrefix(pat, s)
         THEN rep \o ReplaceAll(SubSeq(s, Len(pat) + 1, Len(s)), pat, rep)
         ELSE <<Head(s)>> \o ReplaceAll(Tail(s), pat, rep)

\* Number of matches replaceAll finds.
RECURSIVE CountMatches(_, _)
CountMatches(s, pat) ==
    IF s = <<>> THEN 0
    ELSE IF IsPrefix(pat, s)
         THEN 1 + CountMatches(SubSeq(s, Len(pat) + 1, Len(s)), pat)
         ELSE CountMatches(Tail(s), pat)

(***************************************************************************)
(* Path remap engine (pathmap.ts)                                          *)
(***************************************************************************)
WORKSPACE == "${WORKSPACE}"
HOME == "${HOME}"
Placeholders == {WORKSPACE, HOME}
PathTokens == {"/u", "/w"}
TextTokens == PathTokens \cup Placeholders

\* An EnvMap is the sequence of its entries [key, value] in insertion order
\* (Object.entries order); keys are distinct.
EnvMapKeys(m) == {m[i].key : i \in 1..Len(m)}
EnvMapGet(m, k) ==
    IF k \in EnvMapKeys(m)
    THEN (CHOOSE e \in {m[i] : i \in 1..Len(m)} : e.key = k).value
    ELSE <<>>

createEnvMap(workspace, home) ==
    (IF workspace # <<>> THEN <<[key |-> WORKSPACE, value |-> workspace]>> ELSE <<>>)
    \o (IF home # <<>> THEN <<[key |-> HOME, value |-> home]>> ELSE <<>>)

\* Array.prototype.sort with (a, b) => b[1].length - a[1].length: stable,
\* longest value first.  Every path token is two characters long, so the
\* order by number of tokens is the order by number of characters.
RECURSIVE InsertByLength(_, _)
InsertByLength(e, sorted) ==
    IF sorted = <<>> THEN <<e>>
    ELSE IF Len(Head(sorted).value) >= Len(e.value)
         THEN <<Head(sorted)>> \o InsertByLength(e, Tail(sorted))
         ELSE <<e>> \o sorted

RECURSIVE SortLongestFirst(_)
SortLongestFirst(m) ==
    IF m = <<>> THEN <<>>
    ELSE InsertByLength(m[Len(m)], SortLongestFirst(SubSeq(m, 1, Len(m) - 1)))

\* The loop of applyRemap over the sorted entries.
RECURSIVE ApplyEntries(_, _)
ApplyEntries(content, entries) ==
    IF entries = <<>> THEN content
    ELSE ApplyEntries(
            IF Head(entries).value # <<>>
            THEN ReplaceAll(content, Head(entries).value, <<Head(entries).key>>)
            ELSE content,
            Tail(entries))

\* Mutant: the entries are taken in insertion order, not longest first.
applyRemapUnsorted(content, envMap) ==
    IF envMap = <<>> THEN content ELSE ApplyEntries(content, envMap)

applyRemap(content, envMap) ==
    IF envMap = <<>> THEN content
    ELSE ApplyEntries(content, SortLongestFirst(envMap))

\* The loop of unapplyRemap over the entries in insertion order.
RECURSIVE UnapplyEntries(_, _)
UnapplyEntries(content, entries) ==
    IF entries = <<>> THEN content
    ELSE UnapplyEntries(
            IF Head(entries).value # <<>>
            THEN ReplaceAll(content, <<Head(entries).key>>, Head(entries).value)
            ELSE content,
            Tail(entries))

\* Mutant: only the first entry is substituted back.
unapplyRemapFirstOnly(content, envMap) ==
    UnapplyEntries(content, SubSeq(envMap, 1, IF Len(envMap) > 0 THEN 1 ELSE 0))

unapplyRemap(content, envMap) == UnapplyEntries(content, envMap)

detectPathsInContent(content, envMap) ==
    {k \in EnvMapKeys(envMap) :
        EnvMapGet(envMap, k) # <<>> /\ Includes(content, EnvMapGet(envMap, k))}

\* --- the remap functions on drawn inputs ---------------------------------
RemapValues == SeqsUpTo(PathTokens, MaxValLen)
RemapEntries == [key : Placeholders, value : RemapValues]
RemapMaps ==
    {m \in SeqsUpTo(RemapEntries, 2) : Len(m) = 2 => m[1].key # m[2].key}
RemapTexts == SeqsUpTo(TextTokens, MaxTextLen)

RemapIdle ==
    /\ rmPc = "idle" /\ rmText = <<>> /\ rmMap = <<>>
    /\ rmApplied = <<>> /\ rmRestored = <<>>

RemapInit ==
    /\ rmText \in RemapTexts
    /\ rmMap \in RemapMaps
    /\ rmApplied = <<>>
    /\ rmRestored = <<>>
    /\ rmPc = "input"

RemapApply ==
    /\ rmPc = "input"
    /\ rmApplied' = applyRemap(rmText, rmMap)
    /\ rmPc' = "applied"
    /\ UNCHANGED <<rmText, rmMap, rmRestored>>
    /\ UNCHANGED <<cryptoVars, credVars, mainVars, diffVars, scanVars, openVars, runVars, cliVars>>

RemapUnapply ==
    /\ rmPc = "applied"
    /\ rmRestored' = unapplyRemap(rmApplied, rmMap)
    /\ rmPc' = "unapplied"
    /\ UNCHANGED <<rmText, rmMap, rmApplied>>
    /\ UNCHANGED <<cryptoVars, credVars, mainVars, diffVars, scanVars, openVars, runVars, cliVars>>

RemapNext == RemapApply \/ RemapUnapply

\* The placeholders of m that unapplyRemap substitutes.
LivePlaceholders(m) == {k \in EnvMapKeys(m) : EnvMapGet(m, k) # <<>>}
HasLivePlaceholder(t, m) == \E i \in 1..Len(t) : t[i] \in LivePlaceholders(m)

PrefixPairs(m) ==
    {p \in (1..Len(m)) \X (1..Len(m)) :
        /\ m[p[2]].value # <<>>
        /\ Len(m[p[2]].value) < Len(m[p[1]].value)
        /\ IsPrefix(m[p[2]].value, m[p[1]].value)}
Leftover(long, short) == SubSeq(long, Len(short) + 1, Len(long))
CountToken(s, tok) == Cardinality({i \in 1..Len(s) : s[i] = tok})

LongestMatchAt(p) ==
    LET long == rmMap[p[1]]
        short == rmMap[p[2]]
    IN /\ ~Includes(rmApplied, long.value)
       /\ CountToken(rmApplied, long.key)
            = CountToken(rmText, long.key) + CountMatches(rmText, long.value)
       /\ ~Includes(rmApplied, <<short.key>> \o Leftover(long.value, short.value))

Null == [null |-> TRUE]
Ok(v) == [status |-> "ok", value |-> v]
Err(msg) == [status |-> "error", error |-> msg]

scryptSync(password, salt, params) == [pw |-> password, salt |-> salt, params |-> params]

AesGcmEncrypt(key, nonce, plaintext) ==
    [ciphertext |-> [k |-> key, n |-> nonce, p |-> plaintext],
     tag |-> [tk |-> key, tn |-> nonce, tp |-> plaintext]]

\* decipher.update + decipher.final: throws unless the tag authenticates.
AesGcmDecrypt(key, nonce, tag, ciphertext) ==
    IF /\ ciphertext.k = key
       /\ ciphertext.n = nonce
       /\ tag = [tk |-> key, tn |-> nonce, tp |-> ciphertext.p]
    THEN Ok(ciphertext.p)
    ELSE Err("auth")

\* Buffer.toString('base64') and Buffer.from(s, 'base64').
ToBase64(bytes) == [b64 |-> bytes]
FromBase64(text) == text.b64

\* JSON.stringify into a buffer; JSON.parse of a buffer throws unless the
\* buffer holds a JSON text.
JsonStringify(v) == [json |-> v]
IsJson(buf) == "json" \in DOMAIN buf
JsonParse(buf) == buf.json

\* Buffer.from(envelope.salt, 'base64') and the three calls after it, outside
\* any try: Buffer.from throws a TypeError when the field is undefined, and
\* reading a field of null throws one too.
ENVELOPE_FIELDS == {"salt", "nonce", "tag", "ciphertext"}
BufferFromThrows(envelope) == ~(ENVELOPE_FIELDS \subseteq DOMAIN envelope)
TYPE_ERROR == "TypeError"

SCRYPT_DEFAULT == "default"
SCRYPT_OPTIONS == "N=131072,r=8,p=1"

encryptCredentialVault(payload, password, salt, nonce) ==
    LET key == scryptSync(password, salt, SCRYPT_DEFAULT)
        plaintext == JsonStringify(payload)
        sealed == AesGcmEncrypt(key, nonce, plaintext)
    IN JsonStringify([v |-> 1, kdf |-> "scrypt", alg |-> "aes-256-gcm",
                      salt |-> ToBase64(salt), nonce |-> ToBase64(nonce),
                      tag |-> ToBase64(sealed.tag),
                      ciphertext |-> ToBase64(sealed.ciphertext)])

\* Mutant: the authentication failure is swallowed and the bytes are returned.
decryptCredentialVaultNoAuth(payload, password) ==
    IF ~IsJson(payload) THEN Err("Invalid credentials vault format")
    ELSE Ok(JsonParse(FromBase64(JsonParse(payload).ciphertext).p))

decryptCredentialVault(payload, password) ==
    IF ~IsJson(payload) THEN Err("Invalid credentials vault format")
    ELSE IF BufferFromThrows(JsonParse(payload)) THEN Err(TYPE_ERROR)
    ELSE
      LET envelope == JsonParse(payload)
          salt == FromBase64(envelope.salt)
          nonce == FromBase64(envelope.nonce)
          tag == FromBase64(envelope.tag)
          ciphertext == FromBase64(envelope.ciphertext)
          key == scryptSync(password, salt, SCRYPT_DEFAULT)
          opened == AesGcmDecrypt(key, nonce, tag, ciphertext)
      IN IF opened.status = "ok" /\ IsJson(opened.value)
         THEN Ok(JsonParse(opened.value))
         ELSE Err("Invalid password or corrupted credentials vault")

encryptArchive(archive, password, salt, nonce) ==
    LET key == scryptSync(password, salt, SCRYPT_OPTIONS)
        sealed == AesGcmEncrypt(key, nonce, archive)
    IN JsonStringify([v |-> 2, kdf |-> "scrypt", alg |-> "aes-256-gcm",
                      salt |-> ToBase64(salt), nonce |-> ToBase64(nonce),
                      tag |-> ToBase64(sealed.tag),
                      size |-> Len(archive.bytes),
                      ciphertext |-> ToBase64(sealed.ciphertext)])

decryptArchive(data, password) ==
    IF ~IsJson(data) THEN Err("Invalid encrypted archive format")
    ELSE IF BufferFromThrows(JsonParse(data)) THEN Err(TYPE_ERROR)
    ELSE
      LET envelope == JsonParse(data)
          salt == FromBase64(envelope.salt)
          nonce == FromBase64(envelope.nonce)
          tag == FromBase64(envelope.tag)
          ciphertext == FromBase64(envelope.ciphertext)
          key == scryptSync(password, salt, SCRYPT_OPTIONS)
          opened == AesGcmDecrypt(key, nonce, tag, ciphertext)
      IN IF opened.status = "ok"
         THEN Ok(opened.value)
         ELSE Err("Invalid password or corrupted encrypted archive")

\* --- the envelope functions on drawn inputs --------------------------------
Passwords == {"", "pw1", "pw2"}
Salts == {"s1", "s2"}
Nonces == {"n1", "n2"}
CryptoVaultPayloads ==
    {[version |-> 1, gateway |-> g, files |-> f] :
        g \in {<<>>, <<[name |-> "ANTHROPIC_APIKEY", keyPath |-> <<"anthropic", "apiKey">>,
                        value |-> <<"sk1">>]>>},
        f \in {<<>>, <<[originalPath |-> <<"/u", "/w", "/.env">>, data |-> ToBase64(<<"x">>)]>>}}
CryptoArchives == {[bytes |-> b] : b \in {<<>>, <<"x">>, <<"x", "y">>}}

CryptoIdle ==
    /\ crPc = "idle" /\ crKind = "none" /\ crPayload = <<>> /\ crPassword = ""
    /\ crEnvelope = <<>> /\ crResult = <<>>

CryptoInit ==
    /\ crKind \in {"vault", "archive"}
    /\ crPayload \in (IF crKind = "vault" THEN CryptoVaultPayloads ELSE CryptoArchives)
    /\ crPassword \in Passwords
    /\ crEnvelope = <<>>
    /\ crResult = <<>>
    /\ crPc = "input"

\* randomBytes(16) and randomBytes(12): any salt and nonce.
CryptoEncrypt ==
    /\ crPc = "input"
    /\ \E salt \in Salts, nonce \in Nonces :
          crEnvelope' = IF crKind = "vault"
                        THEN encryptCredentialVault(crPayload, crPassword, salt, nonce)
                        ELSE encryptArchive(crPayload, crPassword, salt, nonce)
    /\ crPc' = "encrypted"
    /\ UNCHANGED <<crKind, crPayload, crPassword, crResult>>
    /\ UNCHANGED <<remapVars, credVars, mainVars, diffVars, scanVars, openVars, runVars, cliVars>>

CryptoDecrypt ==
    /\ crPc = "encrypted"
    /\ \E password \in Passwords :
          crResult' = [given |-> password,
                       out |-> IF crKind = "vault"
                               THEN decryptCredentialVault(crEnvelope, password)
                               ELSE decryptArchive(crEnvelope, password)]
    /\ crPc' = "decrypted"
    /\ UNCHANGED <<crKind, crPayload, crPassword, crEnvelope>>
    /\ UNCHANGED <<remapVars, credVars, mainVars, diffVars, scanVars, openVars, runVars, cliVars>>

CryptoNext == CryptoEncrypt \/ CryptoDecrypt

InvalidPasswordErrors ==
    {"Invalid password or corrupted credentials vault",
     "Invalid password or corrupted encrypted archive"}

\* C7: decrypting with the password used to encrypt returns exactly the
\* payload; decrypting with any other password fails with the invalid-password
\* error and returns no plaintext; for the vault and for the whole archive.
C7_EnvelopeRoundTrip ==
    crPc = "decrypted" =>
        IF crResult.given = crPassword
        THEN crResult.out = Ok(crPayload)
        ELSE /\ crResult.out.status = "error"
             /\ crResult.out.error \in InvalidPasswordErrors
             /\ crResult.out.error =
                  (IF crKind = "vault"
                   THEN "Invalid password or corrupted credentials vault"
                   ELSE "Invalid password or corrupted encrypted archive")

\* A non-empty vault was opened with a wrong password and refused.
C7_Witness ==
    /\ crPc = "decrypted"
    /\ crKind = "vault"
    /\ crPayload.gateway # <<>>
    /\ crResult.given # crPassword
    /\ crResult.out.status = "error"

(***************************************************************************)
(* Opening any buffer: the decrypt functions and resolveArchive            *)
(* (credentials.ts, encrypt.ts, archive-reader.ts)                         *)
(***************************************************************************)
\* data.subarray(0, MAGIC.length).toString('utf-8') === MAGIC: the buffer
\* starts with '{"v":2,'.  JSON.stringify prints v first; [truncated] is such
\* a text cut short, which no longer parses.
isEncryptedArchive(data) ==
    \/ IsJson(data) /\ "v" \in DOMAIN JsonParse(data) /\ JsonParse(data).v = 2
    \/ "truncated" \in DOMAIN data /\ data.truncated.v = 2

ArchivePath == "backup.clawback"
TempDir == "/tmp/clawback-dec-1"
TempPath == "/tmp/clawback-dec-1/archive.tar.gz"
NoTemp == [q \in {} |-> Null]

\* resolveArchive: what it returns or throws and the temporary files after
\* it.  password is <<>> when the argument is left out.
resolveArchive(data, password, temp) ==
    IF ~isEncryptedArchive(data)
    THEN [out |-> Ok([path |-> ArchivePath, encrypted |-> FALSE, tempDir |-> ""]),
          temp |-> temp]
    ELSE IF password = <<>> \/ password[1] = ""
    THEN [out |-> Err("ENCRYPTED_ARCHIVE"), temp |-> temp]
    ELSE LET decrypted == decryptArchive(data, password[1])
         IN IF decrypted.status = "error" THEN [out |-> decrypted, temp |-> temp]
            ELSE [out |-> Ok([path |-> TempPath, encrypted |-> TRUE, tempDir |-> TempDir]),
                  temp |-> (TempPath :> decrypted.value) @@ temp]

cleanupTempArchive(resolved, temp) ==
    IF resolved.tempDir # ""
    THEN [q \in DOMAIN temp \ {TempPath} |-> temp[q]]
    ELSE temp

\* --- drawn buffers ---------------------------------------------------------
\* The envelope the encrypt function of the kind makes.
Sealed(kind, plain, secret, salt, nonce) ==
    IF kind = "vault" THEN encryptCredentialVault(plain, secret, salt, nonce)
    ELSE encryptArchive(plain, secret, salt, nonce)

OtherPlain(kind) ==
    IF kind = "vault" THEN [version |-> 1, gateway |-> <<>>, files |-> <<>>]
    ELSE [bytes |-> <<"z">>]

\* The envelope with one field removed, and with one field replaced by the
\* field of an envelope made from other bytes, salt and nonce.
DropField(buf, field) ==
    JsonStringify([k \in DOMAIN JsonParse(buf) \ {field} |-> JsonParse(buf)[k]])
AlterField(buf, other, field) ==
    JsonStringify([JsonParse(buf) EXCEPT ![field] = JsonParse(other)[field]])

OpenBuffers(kind, plain, secret) ==
    LET sealed == Sealed(kind, plain, secret, "s1", "n1")
        other == Sealed(kind, OtherPlain(kind), secret, "s2", "n2")
    IN {sealed, [truncated |-> JsonParse(sealed)], JsonStringify(Null)}
       \cup (IF kind = "archive" THEN {plain} ELSE {})
       \cup {DropField(sealed, f) : f \in ENVELOPE_FIELDS}
       \cup {AlterField(sealed, other, f) : f \in ENVELOPE_FIELDS}

OpenIdle ==
    /\ opKind = "none" /\ opPlain = <<>> /\ opSecret = "" /\ opBuffer = <<>>
    /\ opGiven = <<>> /\ opResult = Null /\ opTemp = NoTemp /\ opPc = "idle"

OpenInit ==
    /\ opKind \in {"vault", "archive"}
    /\ opPlain \in (IF opKind = "vault" THEN CryptoVaultPayloads ELSE CryptoArchives)
    /\ opSecret \in Passwords
    /\ opBuffer \in OpenBuffers(opKind, opPlain, opSecret)
    /\ opGiven \in {<<>>} \cup {<<pw>> : pw \in Passwords}
    /\ opResult = Null
    /\ opTemp = NoTemp
    /\ opPc = "input"

OpenDecrypt ==
    /\ opPc = "input"
    /\ opGiven # <<>>
    /\ opResult' = IF opKind = "vault" THEN decryptCredentialVault(opBuffer, opGiven[1])
                   ELSE decryptArchive(opBuffer, opGiven[1])
    /\ opPc' = "decrypted"
    /\ UNCHANGED <<opKind, opPlain, opSecret, opBuffer, opGiven, opTemp>>
    /\ UNCHANGED <<remapVars, cryptoVars, credVars, mainVars, diffVars, scanVars, runVars, cliVars>>

OpenResolve ==
    /\ opPc = "input"
    /\ opKind = "archive"
    /\ LET done == resolveArchive(opBuffer, opGiven, opTemp)
       IN opResult' = done.out /\ opTemp' = done.temp
    /\ opPc' = "resolved"
    /\ UNCHANGED <<opKind, opPlain, opSecret, opBuffer, opGiven>>
    /\ UNCHANGED <<remapVars, cryptoVars, credVars, mainVars, diffVars, scanVars, runVars, cliVars>>

OpenCleanup ==
    /\ opPc = "resolved"
    /\ opResult.status = "ok"
    /\ opTemp' = cleanupTempArchive(opResult.value, opTemp)
    /\ opPc' = "cleaned"
    /\ UNCHANGED <<opKind, opPlain, opSecret, opBuffer, opGiven, opResult>>
    /\ UNCHANGED <<remapVars, cryptoVars, credVars, mainVars, diffVars, scanVars, runVars, cliVars>>

OpenNext == OpenDecrypt \/ OpenResolve \/ OpenCleanup

OpenSealed == opBuffer = Sealed(opKind, opPlain, opSecret, "s1", "n1")

\* C19: resolveArchive returns the original path, encrypted = false and makes
\* no temporary file for a plain container; it fails with ENCRYPTED_ARCHIVE
\* and makes no temporary file for an output of encryptArchive when no
\* password is passed; with the password the archive was encrypted with it
\* returns a temporary file that holds the bytes of the plain container.
C19_ResolveArchive ==
    opPc = "resolved" =>
        /\ opBuffer = opPlain =>
              /\ opResult = Ok([path |-> ArchivePath, encrypted |-> FALSE, tempDir |-> ""])
              /\ opTemp = NoTemp
        /\ (OpenSealed /\ opGiven = <<>>) =>
              /\ opResult = Err("ENCRYPTED_ARCHIVE")
              /\ opTemp = NoTemp
        /\ (OpenSealed /\ opGiven = <<opSecret>>) =>
              /\ opResult.status = "ok"
              /\ opResult.value.encrypted
              /\ opResult.value.path \in DOMAIN opTemp
              /\ opTemp[opResult.value.path] = opPlain

\* C20: decryptCredentialVault and decryptArchive return the plaintext or
\* fail with the invalid-format error, when the buffer does not parse, or with
\* the one invalid-password-or-corrupted error, for every other failure: no
\* other exception escapes.
C20_TwoErrorsOnly ==
    opPc = "decrypted" =>
        IF ~IsJson(opBuffer)
        THEN opResult = Err(IF opKind = "vault" THEN "Invalid credentials vault format"
                            ELSE "Invalid encrypted archive format")
        ELSE \/ opResult = Ok(opPlain)
             \/ opResult = Err(IF opKind = "vault"
                               THEN "Invalid password or corrupted credentials vault"
                               ELSE "Invalid password or corrupted encrypted archive")

(***************************************************************************)
(* The commands that open an archive (cli.ts)                              *)
(*                                                                         *)
(* A block ends normally, by a throw, or by process.exit(code), which ends *)
(* the process where it is called: no catch and no finally block runs      *)
(* after it.  What restoreBackup, verifyArchive, the diff functions and    *)
(* getArchiveInfo make of the opened archive is drawn: cliBody.            *)
(***************************************************************************)
Normal == [kind |-> "normal"]
Thrown(error) == [kind |-> "throw", error |-> error]
Exit(code, message) == [kind |-> "exit", code |-> code, stderr |-> message]

\* resolveArchivePath: the password is asked for when resolveArchive throws
\* ENCRYPTED_ARCHIVE.
resolveArchivePath(data, password, typed, temp) ==
    IF resolveArchive(data, password, temp).out = Err("ENCRYPTED_ARCHIVE")
    THEN resolveArchive(data, <<typed>>, temp)
    ELSE resolveArchive(data, password, temp)

NoTemps == [A |-> NoTemp, B |-> NoTemp]
NoneResolved == [A |-> Null, B |-> Null]

\* The statements of the try block after the archives are resolved.
CommandBody(command, body) ==
    IF body = "throws" THEN Thrown("body")
    ELSE IF body = "ok" THEN Exit(0, "")
    ELSE IF command = "verify" /\ body = "error" THEN Exit(1, "Error: verify")
    ELSE IF command = "verify" /\ body = "corrupted" THEN Exit(1, "")
    ELSE Exit(1, "Error: No workspace found. Use --workspace to specify the path.")

\* The try block once <file> is resolved: [end, resolved, temp].
TryResolved(command, files, password, typed, body, first) ==
    IF first.out.status = "error"
    THEN [end |-> Thrown(first.out.error), resolved |-> NoneResolved, temp |-> NoTemps]
    ELSE IF command = "diff" /\ files.B # Null
    THEN LET second == resolveArchivePath(files.B, password, typed, NoTemp)
         IN IF second.out.status = "error"
            THEN [end |-> Thrown(second.out.error),
                  resolved |-> [A |-> first.out.value, B |-> Null],
                  temp |-> [A |-> first.temp, B |-> NoTemp]]
            ELSE [end |-> CommandBody(command, body),
                  resolved |-> [A |-> first.out.value, B |-> second.out.value],
                  temp |-> [A |-> first.temp, B |-> second.temp]]
    ELSE [end |-> CommandBody(command, body),
          resolved |-> [A |-> first.out.value, B |-> Null],
          temp |-> [A |-> first.temp, B |-> NoTemp]]

\* The catch block: the message goes to stderr and the process exits with 1.
CatchBlock(tried) ==
    IF tried.end.kind = "throw"
    THEN [tried EXCEPT !.end = Exit(1, "Error: " \o tried.end.error)]
    ELSE tried

\* The finally block: it runs unless the process has exited.
FinallyBlock(caught) ==
    IF caught.end.kind = "exit" THEN caught
    ELSE [caught EXCEPT
            !.temp = [slot \in {"A", "B"} |->
                        IF caught.resolved[slot] # Null
                        THEN cleanupTempArchive(caught.resolved[slot], caught.temp[slot])
                        ELSE caught.temp[slot]]]

\* The action of a command.
CommandAction(command, files, password, typed, body) ==
    FinallyBlock(CatchBlock(
        TryResolved(command, files, password, typed, body,
                    resolveArchivePath(files.A, password, typed, NoTemp))))

\* --- the commands on drawn archive files -----------------------------------
CliPlain == [bytes |-> <<"x">>]
CliArchiveFiles ==
    {CliPlain, encryptArchive(CliPlain, "pw1", "s1", "n1"),
     [truncated |-> JsonParse(encryptArchive(CliPlain, "pw1", "s1", "n1"))]}
CliBodies(command, files) ==
    {"ok", "throws"}
    \cup (IF command = "verify" THEN {"error", "corrupted"} ELSE {})
    \cup (IF command = "diff" /\ files.B = Null THEN {"noWorkspace"} ELSE {})

CliIdle ==
    /\ cliPc = "idle" /\ cliCommand = "none" /\ cliFiles = Null /\ cliPassword = <<>>
    /\ cliTyped = "" /\ cliBody = "none" /\ cliTemp = NoTemps /\ cliExit = Null
    /\ cliStderr = ""

CliInit ==
    /\ cliCommand \in {"restore", "verify", "diff", "info"}
    /\ \E a \in CliArchiveFiles, b \in CliArchiveFiles \cup {Null} :
          /\ b # Null => cliCommand = "diff"
          /\ cliFiles = [A |-> a, B |-> b]
    /\ cliPassword \in {<<>>, <<"pw1">>, <<"pw2">>}
    /\ cliTyped \in {"", "pw1"}
    /\ cliBody \in CliBodies(cliCommand, cliFiles)
    /\ cliTemp = NoTemps /\ cliExit = Null /\ cliStderr = ""
    /\ cliPc = "input"

CliRun ==
    /\ cliPc = "input"
    /\ LET done == CommandAction(cliCommand, cliFiles, cliPassword, cliTyped, cliBody)
       IN /\ cliTemp' = done.temp
          /\ cliExit' = IF done.end.kind = "exit" THEN done.end.code ELSE 0
          /\ cliStderr' = IF done.end.kind = "exit" THEN done.end.stderr ELSE ""
    /\ cliPc' = "exited"
    /\ UNCHANGED <<cliCommand, cliFiles, cliPassword, cliTyped, cliBody>>
    /\ UNCHANGED <<remapVars, cryptoVars, credVars, mainVars, diffVars, scanVars, openVars, runVars>>

CliNext == CliRun

\* C29: when a command that opens an archive (restore, verify, diff, info)
\* ends, on success and on every failure, no decrypted temporary archive and
\* no temporary directory is left.
C29_TempRemovedAtExit ==
    cliPc = "exited" => cliTemp = NoTemps

(***************************************************************************)
(* Gateway credential extraction (credentials.ts)                          *)
(*                                                                         *)
(* A parsed YAML value is a string [s], a number [n], a mapping [kv] (the  *)
(* sequence of its entries [key, val] in document order) or a list         *)
(* [items].  A config text that parses is [yaml |-> value, canon |-> b],   *)
(* b telling whether the text is what stringifyYaml prints for the value;  *)
(* a text that does not parse is [lines |-> the sequence of its lines].    *)
(***************************************************************************)
\* Most entries of a mapping of a drawn config document.
MaxConfigEntries == 2

REDACTED_VALUE == <<"REDACTED">>

Str(text) == [s |-> text]
Num(number) == [n |-> number]
MapOf(entries) == [kv |-> entries]
ListOf(items) == [items |-> items]
IsStr(v) == DOMAIN v = {"s"}
IsNum(v) == DOMAIN v = {"n"}
IsMap(v) == DOMAIN v = {"kv"}
IsList(v) == DOMAIN v = {"items"}

ConfigKeys == {"anthropic", "apiKey", "name", "my.token"}
\* CREDENTIAL_KEY_PATTERN.test(key) on the keys of the drawn documents:
\* /api[_-]?key|token|secret|access[_-]?token|refresh[_-]?token/i
CREDENTIAL_KEY_PATTERN(key) == key \in {"apiKey", "api_key", "token", "secret", "my.token"}

\* String.prototype.trim on a text whose whitespace is the token " ".
RECURSIVE TrimStart(_)
TrimStart(text) ==
    IF text # <<>> /\ Head(text) = " " THEN TrimStart(Tail(text)) ELSE text
RECURSIVE TrimEnd(_)
TrimEnd(text) ==
    IF text # <<>> /\ text[Len(text)] = " "
    THEN TrimEnd(SubSeq(text, 1, Len(text) - 1)) ELSE text
Trim(text) == TrimEnd(TrimStart(text))

RECURSIVE ConcatAll(_)
ConcatAll(seqs) == IF seqs = <<>> THEN <<>> ELSE Head(seqs) \o ConcatAll(Tail(seqs))

\* The dot-free pieces of a key of the drawn documents.
KeySegments(key) == IF key = "my.token" THEN <<"my", "token">> ELSE <<key>>

\* pathParts.join('.'): a dotted string is the sequence of its dot-free
\* pieces, so a dot inside a key and a dot between two keys read the same.
JoinDots(pathParts) == ConcatAll([i \in 1..Len(pathParts) |-> KeySegments(pathParts[i])])

RECURSIVE deriveProvider(_)
deriveProvider(pathParts) ==
    IF pathParts = <<>> THEN "undefined"
    ELSE IF pathParts[Len(pathParts)] \notin {"providers", "models", "gateway", "config"}
         THEN pathParts[Len(pathParts)]
         ELSE deriveProvider(SubSeq(pathParts, 1, Len(pathParts) - 1))

\* The display name; its upper-casing is not modelled.
buildCredentialName(provider, key) ==
    IF provider = "undefined" THEN <<key>> ELSE <<provider, key>>

\* The test of walk() on one entry of a mapping.
IsRedactedEntry(e) ==
    IsStr(e.val) /\ CREDENTIAL_KEY_PATTERN(e.key) /\ Trim(e.val.s) # <<>>

\* walk(): the updated value.
RECURSIVE WalkValue(_, _)
WalkValue(value, pathParts) ==
    IF IsList(value)
    THEN ListOf([i \in 1..Len(value.items) |->
                    WalkValue(value.items[i], Append(pathParts, ToString(i - 1)))])
    ELSE IF IsMap(value)
    THEN MapOf([i \in 1..Len(value.kv) |->
                  LET e == value.kv[i]
                  IN IF IsRedactedEntry(e)
                     THEN [key |-> e.key, val |-> Str(REDACTED_VALUE)]
                     ELSE [key |-> e.key, val |-> WalkValue(e.val, Append(pathParts, e.key))]])
    ELSE value

\* walk(): the credentials pushed, in the order they are pushed.
RECURSIVE WalkCredentials(_, _)
WalkCredentials(value, pathParts) ==
    IF IsList(value)
    THEN ConcatAll([i \in 1..Len(value.items) |->
                    WalkCredentials(value.items[i], Append(pathParts, ToString(i - 1)))])
    ELSE IF IsMap(value)
    THEN ConcatAll([i \in 1..Len(value.kv) |->
                  LET e == value.kv[i]
                  IN IF IsRedactedEntry(e)
                     THEN <<[name |-> buildCredentialName(deriveProvider(pathParts), e.key),
                             keyPath |-> JoinDots(Append(pathParts, e.key)),
                             value |-> e.val.s,
                             provider |-> deriveProvider(pathParts),
                             required |-> TRUE]>>
                     ELSE WalkCredentials(e.val, Append(pathParts, e.key))])
    ELSE <<>>

Parses(configText) == "yaml" \in DOMAIN configText
parseYaml(configText) == configText.yaml
stringifyYaml(value) == [yaml |-> value, canon |-> TRUE]

\* A line matches /^(\s*)([A-Za-z0-9_-]+)\s*:\s*(.+)$/ when it is [indent, key, value].
LineMatches(line) == "key" \in DOMAIN line
IsRedactedLine(line) ==
    LineMatches(line) /\ CREDENTIAL_KEY_PATTERN(line.key) /\ Trim(line.value) # <<>>

extractGatewayCredentialsFallback(configText) ==
    [sanitizedConfig |->
        [lines |-> [i \in 1..Len(configText.lines) |->
                      LET line == configText.lines[i]
                      IN IF IsRedactedLine(line)
                         THEN [indent |-> line.indent, key |-> line.key,
                               value |-> REDACTED_VALUE]
                         ELSE line]],
     credentials |->
        ConcatAll([i \in 1..Len(configText.lines) |->
                      LET line == configText.lines[i]
                      IN IF IsRedactedLine(line)
                         THEN <<[name |-> buildCredentialName("undefined", line.key),
                                 keyPath |-> <<line.key>>,
                                 value |-> Trim(line.value),
                                 provider |-> "undefined",
                                 required |-> TRUE]>>
                         ELSE <<>>])]

extractGatewayCredentials(configText) ==
    IF Parses(configText)
    THEN [sanitizedConfig |-> stringifyYaml(WalkValue(parseYaml(configText), <<>>)),
          credentials |-> WalkCredentials(parseYaml(configText), <<>>)]
    ELSE extractGatewayCredentialsFallback(configText)

\* The tokens of the text stringifyYaml prints for a value.
RECURSIVE RenderYaml(_)
RenderYaml(value) ==
    IF IsStr(value) THEN value.s
    ELSE IF IsNum(value) THEN <<ToString(value.n)>>
    ELSE IF IsList(value)
    THEN ConcatAll([i \in 1..Len(value.items) |-> <<"-">> \o RenderYaml(value.items[i])])
    ELSE ConcatAll([i \in 1..Len(value.kv) |->
                      <<value.kv[i].key, ":">> \o RenderYaml(value.kv[i].val)])

\* --- extractGatewayCredentials on drawn inputs ------------------------------
ConfigStrings == {<<>>, <<" ">>, <<"sk1">>, <<"sk2">>}
ConfigScalars == {Str(t) : t \in ConfigStrings} \cup {Num(7)}
ConfigInner ==
    {MapOf(<<[key |-> k, val |-> v]>>) : k \in {"apiKey", "name"}, v \in ConfigScalars}
    \cup {ListOf(<<Str(<<"sk1">>)>>)}
ConfigValues == ConfigScalars \cup ConfigInner
ConfigDocs ==
    {MapOf(kv) : kv \in {e \in SeqsUpTo([key : ConfigKeys, val : ConfigValues], MaxConfigEntries) :
                            \A i, j \in 1..Len(e) : i # j => e[i].key # e[j].key}}
ConfigLines ==
    {[raw |-> "{{"]} \cup
    {[indent |-> 0, key |-> k, value |-> <<"sk1">>] : k \in {"apiKey", "name"}}
BrokenConfigs == {[lines |-> <<[raw |-> "{{"]>> \o l] : l \in SeqsUpTo(ConfigLines, 1)}
ConfigTexts == {[yaml |-> d, canon |-> FALSE] : d \in ConfigDocs} \cup BrokenConfigs

CredIdle == gcPc = "idle" /\ gcText = <<>> /\ gcOut = <<>> /\ gcBack = <<>>

CredInit ==
    /\ gcText \in ConfigTexts
    /\ gcOut = <<>>
    /\ gcBack = <<>>
    /\ gcPc = "input"

CredExtract ==
    /\ gcPc = "input"
    /\ gcOut' = extractGatewayCredentials(gcText)
    /\ gcPc' = "extracted"
    /\ UNCHANGED <<gcText, gcBack>>
    /\ UNCHANGED <<remapVars, cryptoVars, mainVars, diffVars, scanVars, openVars, runVars, cliVars>>

\* The scalar leaves of a value, each with the keys leading to it.
RECURSIVE Leaves(_, _)
Leaves(value, pathParts) ==
    IF IsList(value)
    THEN UNION {Leaves(value.items[i], Append(pathParts, ToString(i - 1))) :
                    i \in 1..Len(value.items)}
    ELSE IF IsMap(value)
    THEN UNION {Leaves(value.kv[i].val, Append(pathParts, value.kv[i].key)) :
                    i \in 1..Len(value.kv)}
    ELSE {[path |-> pathParts, val |-> value]}

RECURSIVE ValueAt(_, _)
ValueAt(value, pathParts) ==
    IF pathParts = <<>> THEN value
    ELSE IF IsMap(value)
    THEN LET hits == {i \in 1..Len(value.kv) : value.kv[i].key = Head(pathParts)}
         IN IF hits = {} THEN Str(<<"undefined">>)
            ELSE ValueAt(value.kv[CHOOSE i \in hits : TRUE].val, Tail(pathParts))
    ELSE Str(<<"undefined">>)

LeafText(v) == IF IsStr(v) THEN v.s ELSE <<ToString(v.n)>>

\* The leaves the claim speaks of: a non-blank value under a credential key.
CredentialLeaves(value) ==
    {l \in Leaves(value, <<>>) :
        /\ l.path # <<>>
        /\ CREDENTIAL_KEY_PATTERN(l.path[Len(l.path)])
        /\ Trim(LeafText(l.val)) # <<>>}

\* C5: for every config text that parses, every non-empty leaf under a
\* credential key is replaced by the redaction marker, is captured with its
\* dotted key path and its original value, and its original value appears
\* nowhere in the redacted text.
C5_AllCredentialLeavesRedacted ==
    (gcPc = "extracted" /\ Parses(gcText)) =>
        \A l \in CredentialLeaves(parseYaml(gcText)) :
            /\ ValueAt(parseYaml(gcOut.sanitizedConfig), l.path) = Str(REDACTED_VALUE)
            /\ \E i \in 1..Len(gcOut.credentials) :
                  /\ gcOut.credentials[i].keyPath = JoinDots(l.path)
                  /\ gcOut.credentials[i].value = LeafText(l.val)
            /\ ~Includes(RenderYaml(parseYaml(gcOut.sanitizedConfig)), LeafText(l.val))

(***************************************************************************)
(* Files and directories                                                   *)
(*                                                                         *)
(* A file content is a text [t], a YAML text [yaml, canon], a text that is *)
(* not YAML [lines], or a buffer written by JSON.stringify [json].  A      *)
(* directory is [exists, files], files mapping each relative path (the     *)
(* sequence of its segments) to the content of the file there.  An         *)
(* absolute path is a sequence of path tokens, each '/' and one segment.   *)
(* Timestamps, modes, host names and the agent's display name are not      *)
(* modelled.                                                               *)
(***************************************************************************)
\* Most files of a drawn workspace.
MaxFiles == 2

Text(tokens) == [t |-> tokens]
IsText(c) == DOMAIN c = {"t"}
IsLines(c) == DOMAIN c = {"lines"}

\* Buffer.length and statSync().size, in tokens; a YAML text that is not in
\* the printer's layout is one token longer than the printed one.
ByteLength(c) ==
    IF IsText(c) THEN Len(c.t)
    ELSE IF Parses(c) THEN Len(RenderYaml(c.yaml)) + (IF c.canon THEN 0 ELSE 1)
    ELSE IF IsLines(c) THEN Len(c.lines)
    ELSE 1

\* 'sha256:' + createHash('sha256').update(content).digest('hex')
Sha256(content) == [sha256 |-> content]

\* process.env.HOME, the workspace that is backed up, and the two directories
\* a restore is pointed at: one that does not exist and one that holds an
\* agent already and whose path contains the path of the workspace.
HomeDir == <<"/u">>
WsRoot == <<"/u", "/w">>
FreshTarget == <<"/w">>
UsedTarget == <<"/u", "/u", "/w">>
Targets == {FreshTarget, UsedTarget}
Roots == {WsRoot} \cup Targets

NoDir == [exists |-> FALSE, files |-> <<>>]

\* path.join(dir, relPath) and its inverse path.relative(dir, absPath) for a
\* path under dir.
AbsPath(root, relPath) == root \o [i \in 1..Len(relPath) |-> "/" \o relPath[i]]

GatewayDoc ==
    MapOf(<<[key |-> "name", val |-> Str(WsRoot)],
            [key |-> "anthropic",
             val |-> MapOf(<<[key |-> "apiKey", val |-> Str(<<"sk1">>)]>>)]>>)

\* The files a drawn workspace is made of.
WorkspaceFile ==
    (<<"SOUL.md">> :> Text(<<"soul">>))
    @@ (<<"TOOLS.md">> :> Text(<<"bin">> \o WsRoot))
    @@ (<<"a.yaml">> :> Text(<<"x">>))
    @@ (<<"config", "a.yaml">> :> Text(<<"y">>))
    @@ (<<".env">> :> Text(<<"k1">>))
    @@ (<<"..x.token">> :> Text(<<"k2">>))
    @@ (<<"config", "env-map.json">> :> JsonStringify(<<>>))
    @@ (<<"config", "gateway.yaml">> :> [yaml |-> GatewayDoc, canon |-> FALSE])
    @@ (<<"memory", "d.md">> :> Text(<<"day">>))
FilePaths == DOMAIN WorkspaceFile
WorkspaceTrees ==
    {[p \in P |-> WorkspaceFile[p]] :
        P \in {Q \in SUBSET FilePaths : Cardinality(Q) <= MaxFiles}}

\* The names of the drawn files and directories in the order of
\* String.localeCompare, and the two orders readdirSync lists them in.
Collation ==
    <<"..x.token", ".clawback-restored", ".env", "a.yaml", "config", "d.md",
      "env-map.json", "gateway.yaml", "ln", "memory", "p.md", "projects",
      "restore-fixup.sh", "s.md", "SOUL.md", "tmp", "TOOLS.md">>
Reverse(s) == [i \in 1..Len(s) |-> s[Len(s) + 1 - i]]
ReaddirOrders == {Collation, Reverse(Collation)}
SortNames(S) == SelectSeq(Collation, LAMBDA n : n \in S)

\* path.extname, String.endsWith and String.startsWith on the drawn names.
extname(name) ==
    IF name \in {"a.yaml", "gateway.yaml"} THEN ".yaml"
    ELSE IF name \in {"SOUL.md", "TOOLS.md", "d.md", "p.md", "s.md"} THEN ".md"
    ELSE IF name = "env-map.json" THEN ".json"
    ELSE IF name = "..x.token" THEN ".token"
    ELSE IF name = "restore-fixup.sh" THEN ".sh"
    ELSE ""
EndsWith(name, suffix) == suffix # "" /\ extname(name) = suffix
StartsWith(name, prefix) == <<name, prefix>> \in {<<"..x.token", "..">>}

\* The names directly under relPath in a directory.
ChildNames(files, relPath) ==
    {p[Len(relPath) + 1] :
        p \in {q \in DOMAIN files : Len(q) > Len(relPath) /\ IsPrefix(relPath, q)}}

(***************************************************************************)
(* The classifier (manifest.ts) and the archive path (backup.ts)           *)
(***************************************************************************)
AGENT_ROOT_FILES ==
    {"SOUL.md", "AGENTS.md", "IDENTITY.md", "USER.md", "MEMORY.md", "HEARTBEAT.md",
     "CHECKLIST.md", "TOOLS.md"}
AGENT_DIRS == {"memory"}
CATEGORY_DIRS == [config |-> "config", skills |-> "skill", scripts |-> "script"]
KNOWN_AGENT_DIRS == AGENT_DIRS \cup DOMAIN CATEGORY_DIRS
DEFAULT_EXCLUDE_NAMES ==
    {"node_modules", ".git", ".DS_Store", ".venv", "__pycache__", ".cache", "dist", "tmp"}
DEFAULT_EXCLUDE_EXTENSIONS == {".clawback", ".log"}

isDefaultExcluded(name) ==
    \/ name \in DEFAULT_EXCLUDE_NAMES
    \/ \E ext \in DEFAULT_EXCLUDE_EXTENSIONS : EndsWith(name, ext)

\* An exclude pattern is [ext] for '*' followed by an extension, [dir] for a
\* path followed by '/', [exact] for any other pattern.
MatchesPattern(relPath, name, pattern) ==
    IF "ext" \in DOMAIN pattern THEN EndsWith(name, pattern.ext)
    ELSE IF "dir" \in DOMAIN pattern THEN IsPrefix(pattern.dir, relPath)
    ELSE \/ <<name>> = pattern.exact
         \/ relPath = pattern.exact
         \/ (IsPrefix(pattern.exact, relPath) /\ Len(relPath) > Len(pattern.exact))

matchesExcludePattern(relPath, name, patterns) ==
    \E i \in 1..Len(patterns) : MatchesPattern(relPath, name, patterns[i])

categorizeFile(relPath) ==
    LET fileName == relPath[Len(relPath)]
        nested == Len(relPath) > 1
    IN IF nested /\ relPath[1] \in DOMAIN CATEGORY_DIRS THEN CATEGORY_DIRS[relPath[1]]
       ELSE IF nested /\ relPath[1] \in AGENT_DIRS THEN "agent"
       ELSE IF ~nested /\ fileName \in AGENT_ROOT_FILES THEN "agent"
       ELSE IF ~nested /\ extname(fileName) \in {".yaml", ".yml"} THEN "config"
       ELSE IF ~nested /\ fileName \in {"cron-jobs.json", "env-map.json"} THEN "config"
       ELSE "agent"

hashFile(files, relPath) == Sha256(files[relPath])

ManifestEntry(files, relPath) ==
    [path |-> relPath, category |-> categorizeFile(relPath),
     size |-> ByteLength(files[relPath])]

\* A Dirent of the directory view: a symbolic link is an entry [symlink |->
\* "file" or "dir"]; what a link to a directory shows is stored under the
\* link's path.  Any other entry is a regular file; a path that only prefixes
\* entries is a directory.
IsSymlink(files, relPath) ==
    relPath \in DOMAIN files /\ DOMAIN files[relPath] = {"symlink"}
IsFile(files, relPath) ==
    relPath \in DOMAIN files /\ DOMAIN files[relPath] # {"symlink"}
IsDirectory(files, relPath) ==
    relPath \notin DOMAIN files /\ ChildNames(files, relPath) # {}

RECURSIVE walkDirectory(_, _, _)
walkDirectory(files, dirPath, excludePatterns) ==
    LET items == SortNames(ChildNames(files, dirPath))
        Visit(name) ==
            LET relPath == Append(dirPath, name)
            IN IF isDefaultExcluded(name) THEN <<>>
               ELSE IF matchesExcludePattern(relPath, name, excludePatterns) THEN <<>>
               ELSE IF IsSymlink(files, relPath) THEN <<>>
               ELSE IF IsDirectory(files, relPath)
               THEN walkDirectory(files, relPath, excludePatterns)
               ELSE <<ManifestEntry(files, relPath)>>
    IN ConcatAll([i \in 1..Len(items) |-> Visit(items[i])])

RECURSIVE SumSizes(_)
SumSizes(entries) ==
    IF entries = <<>> THEN 0 ELSE Head(entries).size + SumSizes(Tail(entries))

CountCategory(entries, category) ==
    Cardinality({i \in 1..Len(entries) : entries[i].category = category})

ManifestContents(entries, credentials) ==
    [agent_files |-> CountCategory(entries, "agent"),
     config_files |-> CountCategory(entries, "config"),
     custom_skills |-> CountCategory(entries, "skill"),
     scripts |-> CountCategory(entries, "script"),
     credentials |-> credentials,
     total_bytes |-> SumSizes(entries)]

\* An included directory is [dir, spelling]: dir is what join(workspace, s)
\* makes of the string s, relative to the workspace; spelling is "plain" when
\* s is that relative path itself, "slash" when s spells it another way (a
\* trailing '/', a leading './'), "escape" when s leads out of the workspace.
IncludesName(include, name) ==
    \E i \in 1..Len(include) :
        include[i].spelling = "plain" /\ include[i].dir = <<name>>

\* The error the validation loop throws, or "" when it throws none.
IncludeError(files, include) ==
    LET Check(item) ==
            IF item.spelling = "escape" THEN "Included directory is outside workspace"
            ELSE IF item.dir # <<>> /\ item.dir \notin DOMAIN files
                    /\ ChildNames(files, item.dir) = {}
            THEN "Included directory does not exist"
            ELSE IF item.dir \in DOMAIN files /\ files[item.dir] # [symlink |-> "dir"]
            THEN "Included path is not a directory"
            ELSE ""
        bad == {i \in 1..Len(include) : Check(include[i]) # ""}
    IN IF bad = {} THEN ""
       ELSE Check(include[CHOOSE i \in bad : \A j \in bad : i <= j])

\* The loop over the included directories that the root scan did not cover.
RECURSIVE WalkIncluded(_, _, _, _)
WalkIncluded(files, include, exclude, found) ==
    IF include = <<>> THEN found
    ELSE LET item == Head(include)
             alreadyIncluded ==
                 /\ item.spelling = "plain"
                 /\ \E i \in 1..Len(found) : IsPrefix(item.dir, found[i].path)
         IN WalkIncluded(files, Tail(include), exclude,
                         IF alreadyIncluded THEN found
                         ELSE found \o walkDirectory(files, item.dir, exclude))

\* The root scan; listing is the order readdirSync lists the workspace root in.
ScanRoot(files, listing, exclude, include) ==
    LET items == SelectSeq(listing, LAMBDA n : n \in ChildNames(files, <<>>))
        Scan(name) ==
            IF isDefaultExcluded(name) THEN <<>>
            ELSE IF matchesExcludePattern(<<name>>, name, exclude) THEN <<>>
            ELSE IF IsSymlink(files, <<name>>) THEN <<>>
            ELSE IF IsFile(files, <<name>>) THEN <<ManifestEntry(files, <<name>>)>>
            ELSE IF name \in KNOWN_AGENT_DIRS \/ IncludesName(include, name)
                 THEN walkDirectory(files, <<name>>, exclude)
                 ELSE <<>>
    IN ConcatAll([i \in 1..Len(items) |-> Scan(items[i])])

ManifestOf(files, workspace, entries) ==
    [source |-> [workspace |-> workspace],
     agent |-> [soul_hash |-> IF <<"SOUL.md">> \in DOMAIN files
                              THEN hashFile(files, <<"SOUL.md">>)
                              ELSE Null],
     contents |-> ManifestContents(entries, FALSE),
     checksums |-> [q \in {entries[i].path : i \in 1..Len(entries)} |->
                       hashFile(files, q)],
     files |-> entries]

\* createManifest with included directories: the manifest, or the error thrown.
createManifestInclude(files, workspace, listing, exclude, include) ==
    IF IncludeError(files, include) # "" THEN Err(IncludeError(files, include))
    ELSE Ok(ManifestOf(files, workspace,
                       WalkIncluded(files, include, exclude,
                                    ScanRoot(files, listing, exclude, include))))

\* createManifest as createBackup and the diff call it, without included
\* directories.
createManifest(files, workspace, listing, exclude) ==
    ManifestOf(files, workspace, ScanRoot(files, listing, exclude, <<>>))

getArchivePath(relPath, category) ==
    LET nested == Len(relPath) > 1
    IN IF nested /\ relPath[1] = category THEN relPath
       ELSE IF nested /\ relPath[1] = "memory" THEN <<"agent">> \o relPath
       ELSE IF nested /\ relPath[1] \in {"config", "skills", "scripts"} THEN relPath
       ELSE <<category>> \o relPath

(***************************************************************************)
(* The classifier on drawn workspaces, exclude lists and include lists     *)
(***************************************************************************)
\* Most directories of a drawn include list.
MaxInclude == 1

\* What a drawn workspace shows: regular files, a link to a file, a directory
\* the deny-set names, a directory outside the allowlist, and a link to a
\* directory together with the file seen through it.
ScanFile ==
    (<<"SOUL.md">> :> Text(<<"soul">>))
    @@ (<<"TOOLS.md">> :> Text(<<"bin">>))
    @@ (<<"memory", "d.md">> :> Text(<<"day">>))
    @@ (<<"memory", "s.md">> :> [symlink |-> "file"])
    @@ (<<"projects", "p.md">> :> Text(<<"plan">>))
    @@ (<<"tmp", "p.md">> :> Text(<<"junk">>))
    @@ (<<"ln">> :> [symlink |-> "dir"])
    @@ (<<"ln", "p.md">> :> Text(<<"far">>))
ScanTrees ==
    {[p \in P |-> ScanFile[p]] :
        P \in {Q \in SUBSET DOMAIN ScanFile : Cardinality(Q) <= MaxFiles}}

\* 'memory', 'memory/', 'projects', 'tmp', 'ln' and '..'.
ScanIncludeItems ==
    {[dir |-> <<"memory">>, spelling |-> "plain"],
     [dir |-> <<"memory">>, spelling |-> "slash"],
     [dir |-> <<"projects">>, spelling |-> "plain"],
     [dir |-> <<"tmp">>, spelling |-> "plain"],
     [dir |-> <<"ln">>, spelling |-> "plain"],
     [dir |-> <<>>, spelling |-> "escape"]}
ScanIncludes == SeqsUpTo(ScanIncludeItems, MaxInclude)

\* no pattern, '*.md', 'projects/' and 'd.md'.
ScanExcludes ==
    {<<>>, <<[ext |-> ".md"]>>, <<[dir |-> <<"projects">>]>>, <<[exact |-> <<"d.md">>]>>}

ScanIdle ==
    /\ scTree = <<>> /\ scExclude = <<>> /\ scInclude = <<>>
    /\ scResult = Null /\ scAgain = Null /\ scPc = "idle"

ScanInit ==
    /\ scTree \in ScanTrees
    /\ scExclude \in ScanExcludes
    /\ scInclude \in ScanIncludes
    /\ scResult = Null
    /\ scAgain = Null
    /\ scPc = "input"

Scan ==
    /\ scPc = "input"
    /\ \E listing \in ReaddirOrders :
          scResult' = createManifestInclude(scTree, WsRoot, listing, scExclude, scInclude)
    /\ scPc' = "scanned"
    /\ UNCHANGED <<scTree, scExclude, scInclude, scAgain>>
    /\ UNCHANGED <<remapVars, cryptoVars, credVars, mainVars, diffVars, openVars, runVars, cliVars>>

Rescan ==
    /\ scPc = "scanned"
    /\ \E listing \in ReaddirOrders :
          scAgain' = createManifestInclude(scTree, WsRoot, listing, scExclude, scInclude)
    /\ scPc' = "rescanned"
    /\ UNCHANGED <<scTree, scExclude, scInclude, scResult>>
    /\ UNCHANGED <<remapVars, cryptoVars, credVars, mainVars, diffVars, openVars, runVars, cliVars>>

ScanNext == Scan \/ Rescan

(***************************************************************************)
(* Credential files and gateway credentials (credentials.ts)               *)
(***************************************************************************)
\* The segment a path token holds.
SegmentNames == {Collation[i] : i \in 1..Len(Collation)} \cup {"u", "w"}
SegmentOf(token) == CHOOSE n \in SegmentNames : "/" \o n = token

\* path.relative(parent, child); a child that is not under parent gives a
\* path that climbs.
relative(parent, child) ==
    IF IsPrefix(parent, child)
    THEN [i \in 1..(Len(child) - Len(parent)) |-> SegmentOf(child[Len(parent) + i])]
    ELSE <<"..">>

\* rel.startsWith('..') looks at the characters of the first segment.
isPathInside(parent, child) ==
    LET rel == relative(parent, child)
    IN rel # <<>> /\ rel[1] # ".." /\ ~StartsWith(rel[1], "..")

\* existsSync and readFileSync of an absolute path.
ExistsAbs(fsys, absPath) ==
    \E r \in DOMAIN fsys :
        /\ fsys[r].exists
        /\ IsPrefix(r, absPath)
        /\ (absPath = r \/ ChildNames(fsys[r].files, relative(r, absPath)) # {}
                        \/ relative(r, absPath) \in DOMAIN fsys[r].files)
ReadAbs(fsys, absPath) ==
    LET r == CHOOSE r \in DOMAIN fsys : IsPrefix(r, absPath)
    IN fsys[r].files[relative(r, absPath)]

\* mkdirSync(dirname(path), recursive) and writeFileSync(path, content).
WriteAbs(fsys, absPath, content) ==
    IF \E r \in DOMAIN fsys : IsPrefix(r, absPath) /\ absPath # r
    THEN LET r == CHOOSE r \in DOMAIN fsys : IsPrefix(r, absPath)
         IN [fsys EXCEPT ![r] =
                [exists |-> TRUE,
                 files |-> (relative(r, absPath) :> content) @@ fsys[r].files]]
    ELSE fsys

CredentialSourceOf(name) ==
    IF name = ".env" \/ StartsWith(name, ".env.") THEN "env-file"
    ELSE IF EndsWith(name, "-cookies.json") THEN "cookies"
    ELSE IF name \in {"auth-profiles.json", "models.json"} THEN "oauth-token"
    ELSE IF EndsWith(name, ".token") THEN "oauth-token"
    ELSE "none"

OauthCandidates ==
    <<<<".openclaw", "auth.json">>, <<".openclaw", "oauth.json">>,
      <<".openclaw", "credentials.json">>, <<"config", "auth.json">>,
      <<"config", "oauth.json">>>>

\* listing is the order readdirSync lists the workspace root in.
detectCredentialFiles(fsys, workspace, listing, includeCredential) ==
    LET files == fsys[workspace].files
        dirItems == SelectSeq(listing, LAMBDA n : n \in ChildNames(files, <<>>))
        rootEntries ==
            ConcatAll([i \in 1..Len(dirItems) |->
                IF CredentialSourceOf(dirItems[i]) = "none" THEN <<>>
                ELSE <<[name |-> dirItems[i],
                        source |-> CredentialSourceOf(dirItems[i]),
                        originalPath |-> AbsPath(workspace, <<dirItems[i]>>),
                        required |-> FALSE]>>])
        oauthEntries ==
            ConcatAll([i \in 1..Len(OauthCandidates) |->
                IF OauthCandidates[i] \in DOMAIN files
                THEN <<[name |-> OauthCandidates[i][2],
                        source |-> "oauth-token",
                        originalPath |-> AbsPath(workspace, OauthCandidates[i]),
                        required |-> FALSE]>>
                ELSE <<>>])
        includeEntries ==
            [i \in 1..Len(includeCredential) |->
                [name |-> SegmentOf(includeCredential[i][Len(includeCredential[i])]),
                 source |-> "include-credential",
                 originalPath |-> includeCredential[i],
                 required |-> FALSE]]
    IN IF \E i \in 1..Len(includeCredential) : ~ExistsAbs(fsys, includeCredential[i])
       THEN Err("Included credential not found")
       ELSE Ok(rootEntries \o oauthEntries \o includeEntries)

resolveCredentialPathsInWorkspace(workspace, credentialFiles) ==
    ConcatAll([i \in 1..Len(credentialFiles) |->
        IF isPathInside(workspace, credentialFiles[i].originalPath)
        THEN <<relative(workspace, credentialFiles[i].originalPath)>>
        ELSE <<>>])

buildCredentialManifest(gatewayCredentials, credentialFiles) ==
    [credentials |->
        [i \in 1..Len(gatewayCredentials) |->
            [name |-> gatewayCredentials[i].name, source |-> "gateway-config",
             required |-> gatewayCredentials[i].required,
             keyPath |-> gatewayCredentials[i].keyPath]]
        \o [i \in 1..Len(credentialFiles) |->
            [name |-> credentialFiles[i].name, source |-> credentialFiles[i].source,
             required |-> credentialFiles[i].required,
             originalPath |-> credentialFiles[i].originalPath]]]

buildCredentialVaultPayload(fsys, gatewayCredentials, credentialFiles) ==
    [version |-> 1,
     gateway |-> [i \in 1..Len(gatewayCredentials) |->
                    [name |-> gatewayCredentials[i].name,
                     keyPath |-> gatewayCredentials[i].keyPath,
                     value |-> gatewayCredentials[i].value]],
     files |-> [i \in 1..Len(credentialFiles) |->
                    [originalPath |-> credentialFiles[i].originalPath,
                     data |-> ToBase64(ReadAbs(fsys, credentialFiles[i].originalPath))]]]

remapCredentialPath(originalPath, oldEnvMap, newEnvMap) ==
    IF oldEnvMap = <<>> THEN originalPath
    ELSE unapplyRemap(applyRemap(originalPath, oldEnvMap), newEnvMap)

RECURSIVE restoreCredentialFiles(_, _, _, _)
restoreCredentialFiles(fsys, vaultFiles, oldEnvMap, newEnvMap) ==
    IF vaultFiles = <<>> THEN fsys
    ELSE restoreCredentialFiles(
            WriteAbs(fsys,
                     remapCredentialPath(Head(vaultFiles).originalPath, oldEnvMap, newEnvMap),
                     FromBase64(Head(vaultFiles).data)),
            Tail(vaultFiles), oldEnvMap, newEnvMap)

\* keyPath.split('.').filter(Boolean): the non-empty dot-free pieces.
SplitDots(keyPath) == SelectSeq(keyPath, LAMBDA piece : piece # "")

\* The index of a key in a mapping, 0 when the mapping has no such key.
KeyIndex(entries, key) ==
    IF \E i \in 1..Len(entries) : entries[i].key = key
    THEN CHOOSE i \in 1..Len(entries) : entries[i].key = key
    ELSE 0

\* The loop of setNestedValue from a mapping on (a list is left alone: no
\* key path of a drawn document crosses a list).
RECURSIVE SetInMap(_, _, _)
SetInMap(value, pathParts, newValue) ==
    IF ~IsMap(value) \/ pathParts = <<>> THEN value
    ELSE LET key == Head(pathParts)
             at == KeyIndex(value.kv, key)
             child == IF at = 0 THEN MapOf(<<>>)
                      ELSE IF IsMap(value.kv[at].val) \/ IsList(value.kv[at].val)
                           THEN value.kv[at].val
                           ELSE MapOf(<<>>)
             put == IF Len(pathParts) = 1 THEN Str(newValue)
                    ELSE SetInMap(child, Tail(pathParts), newValue)
         IN IF at = 0
            THEN MapOf(Append(value.kv, [key |-> key, val |-> put]))
            ELSE MapOf([value.kv EXCEPT ![at] = [key |-> key, val |-> put]])

setNestedValue(value, pathParts, newValue) == SetInMap(value, pathParts, newValue)

RECURSIVE InjectAll(_, _)
InjectAll(value, values) ==
    IF values = <<>> THEN value
    ELSE InjectAll(setNestedValue(value, SplitDots(Head(values).keyPath), Head(values).value),
                   Tail(values))

\* The fallback of injectGatewayCredentials: the first line with the last key
\* of the path gets the value.
RECURSIVE InjectLines(_, _)
InjectLines(lines, values) ==
    IF values = <<>> THEN lines
    ELSE LET keyPath == SplitDots(Head(values).keyPath)
             key == keyPath[Len(keyPath)]
             hits == {i \in 1..Len(lines) : LineMatches(lines[i]) /\ lines[i].key = key}
             first == CHOOSE i \in hits : \A j \in hits : i <= j
         IN InjectLines(
                IF keyPath = <<>> \/ hits = {} THEN lines
                ELSE [lines EXCEPT ![first] = [indent |-> lines[first].indent, key |-> key,
                                               value |-> Head(values).value]],
                Tail(values))

injectGatewayCredentials(configText, values) ==
    IF values = <<>> THEN configText
    ELSE IF Parses(configText)
    THEN stringifyYaml(InjectAll(parseYaml(configText), values))
    ELSE IF IsLines(configText) THEN [lines |-> InjectLines(configText.lines, values)]
    ELSE configText

\* vault.gateway.map((cred) => ({ keyPath: cred.keyPath, value: cred.value }))
CredentialValues(credentials) ==
    [i \in 1..Len(credentials) |->
        [keyPath |-> credentials[i].keyPath, value |-> credentials[i].value]]

\* The extracted credentials are injected into the redacted config.
CredInject ==
    /\ gcPc = "extracted"
    /\ gcBack' = injectGatewayCredentials(gcOut.sanitizedConfig,
                                          CredentialValues(gcOut.credentials))
    /\ gcPc' = "injected"
    /\ UNCHANGED <<gcText, gcOut>>
    /\ UNCHANGED <<remapVars, cryptoVars, mainVars, diffVars, scanVars, openVars, runVars, cliVars>>

CredNext == CredExtract \/ CredInject

\* The keys of the mappings of a value.
RECURSIVE KeysOf(_)
KeysOf(value) ==
    IF IsMap(value)
    THEN {value.kv[i].key : i \in 1..Len(value.kv)}
         \cup UNION {KeysOf(value.kv[i].val) : i \in 1..Len(value.kv)}
    ELSE IF IsList(value) THEN UNION {KeysOf(value.items[i]) : i \in 1..Len(value.items)}
    ELSE {}

Injected == gcPc = "injected" /\ Parses(gcText)

\* C23: the credentials extractGatewayCredentials returned, injected into
\* the redacted config it returned, give a document whose parsed tree is the
\* tree of the original config.
C23_InjectRestoresTree ==
    Injected => (Parses(gcBack) /\ parseYaml(gcBack) = parseYaml(gcText))

\* The round trip on the configs no key of which holds a dot.
C23_DotFreeRoundTrip ==
    (Injected /\ \A key \in KeysOf(parseYaml(gcText)) : KeySegments(key) = <<key>>)
        => (Parses(gcBack) /\ parseYaml(gcBack) = parseYaml(gcText))

IsCredentialTarget(e) ==
    /\ IsStr(e.val) /\ CREDENTIAL_KEY_PATTERN(e.key)
    /\ (Trim(e.val.s) = <<>> \/ Trim(e.val.s) = REDACTED_VALUE)

RECURSIVE WalkTargets(_, _)
WalkTargets(value, pathParts) ==
    IF IsList(value)
    THEN ConcatAll([i \in 1..Len(value.items) |->
                    WalkTargets(value.items[i], Append(pathParts, ToString(i - 1)))])
    ELSE IF IsMap(value)
    THEN ConcatAll([i \in 1..Len(value.kv) |->
                  LET e == value.kv[i]
                  IN IF IsCredentialTarget(e)
                     THEN <<[keyPath |-> JoinDots(Append(pathParts, e.key)),
                             provider |-> deriveProvider(pathParts),
                             keyName |-> e.key]>>
                     ELSE WalkTargets(e.val, Append(pathParts, e.key))])
    ELSE <<>>

findGatewayCredentialTargets(configText) ==
    IF Parses(configText) THEN WalkTargets(parseYaml(configText), <<>>) ELSE <<>>

(***************************************************************************)
(* createBackup (backup.ts)                                                *)
(*                                                                         *)
(* The archive is the sequence of its tar entries [name, content] in the   *)
(* order they are packed.  What the call meets outside the program is its  *)
(* env: the order readdirSync lists the root in, what the two openclaw     *)
(* commands print (Null when the command fails), the password typed at the *)
(* prompt, and the random salt and nonce.                                  *)
(***************************************************************************)
\* applyRemap (forward) or unapplyRemap on every string of a YAML value.
RECURSIVE RemapValue(_, _, _)
RemapValue(value, envMap, forward) ==
    IF IsStr(value)
    THEN Str(IF forward THEN applyRemap(value.s, envMap) ELSE unapplyRemap(value.s, envMap))
    ELSE IF IsList(value)
    THEN ListOf([i \in 1..Len(value.items) |-> RemapValue(value.items[i], envMap, forward)])
    ELSE IF IsMap(value)
    THEN MapOf([i \in 1..Len(value.kv) |->
                  [key |-> value.kv[i].key,
                   val |-> RemapValue(value.kv[i].val, envMap, forward)]])
    ELSE value

\* applyRemap (forward) or unapplyRemap on the text of a file: the paths of a
\* YAML text are in its strings.
RemapText(content, envMap, forward) ==
    IF IsText(content)
    THEN Text(IF forward THEN applyRemap(content.t, envMap)
              ELSE unapplyRemap(content.t, envMap))
    ELSE IF Parses(content)
    THEN [yaml |-> RemapValue(content.yaml, envMap, forward), canon |-> content.canon]
    ELSE IF IsLines(content)
    THEN [lines |-> [i \in 1..Len(content.lines) |->
                        IF LineMatches(content.lines[i])
                        THEN [content.lines[i] EXCEPT !.value =
                                 IF forward THEN applyRemap(@, envMap)
                                 ELSE unapplyRemap(@, envMap)]
                        ELSE content.lines[i]]]
    ELSE content

\* No path: an option that was not given, or a workspace that was not found.
NoPath == <<>>

discoverWorkspace(fsys, workspace) ==
    IF workspace \in DOMAIN fsys /\ fsys[workspace].exists THEN workspace ELSE NoPath

GatewayConfigPaths ==
    <<<<"gateway.yaml">>, <<"config", "gateway.yaml">>, <<".openclaw", "gateway.yaml">>>>

exportGatewayConfig(files, cliGateway, envMap) ==
    IF cliGateway # Null THEN RemapText(cliGateway, envMap, TRUE)
    ELSE LET found == {i \in 1..Len(GatewayConfigPaths) : GatewayConfigPaths[i] \in DOMAIN files}
         IN IF found = {} THEN Null
            ELSE RemapText(
                    files[GatewayConfigPaths[CHOOSE i \in found : \A j \in found : i <= j]],
                    envMap, TRUE)

remapCronJobPaths(jobs, envMap) ==
    [i \in 1..Len(jobs) |->
        [payload |-> [text |-> applyRemap(jobs[i].payload.text, envMap)]]]

exportCronJobs(cliCron, envMap) ==
    IF cliCron # Null /\ IsJson(cliCron)
    THEN JsonStringify([version |-> 1, jobs |-> remapCronJobPaths(JsonParse(cliCron), envMap)])
    ELSE Null

generateEnvMapJson(envMap) == JsonStringify(envMap)
generateReadme(manifest) == [readme |-> manifest.contents]

GatewayCandidates ==
    {<<"config", "gateway.yaml">>, <<"config", "gateway.yml">>, <<"gateway.yaml">>,
     <<"gateway.yml">>}

TarEntry(name, content) == [name |-> name, content |-> content]

\* The content packed for a manifest path: the sanitized gateway config for a
\* gateway config file, the file's bytes otherwise.
ContentOf(files, sanitizedGatewayConfig, path) ==
    IF sanitizedGatewayConfig # Null /\ path \in GatewayCandidates
    THEN sanitizedGatewayConfig
    ELSE files[path]

\* manifest.files without the credential files, with sizes, checksums and
\* counts recomputed.
RecomputeManifest(manifest0, files, sanitizedGatewayConfig, credentialRelPaths, withCredentials) ==
    LET kept == SelectSeq(manifest0.files, LAMBDA f : f.path \notin credentialRelPaths)
        manifestFiles ==
            [i \in 1..Len(kept) |->
                [path |-> kept[i].path, category |-> kept[i].category,
                 size |-> ByteLength(ContentOf(files, sanitizedGatewayConfig,
                                               kept[i].path))]]
    IN [source |-> manifest0.source,
        agent |-> manifest0.agent,
        contents |-> ManifestContents(manifestFiles, withCredentials),
        checksums |-> [q \in {kept[i].path : i \in 1..Len(kept)} |->
                          Sha256(ContentOf(files, sanitizedGatewayConfig, q))],
        files |-> manifestFiles]

\* credentials-manifest.json and credentials.age, under --with-credentials.
VaultEntries(fsys, options, env, gatewayCredentials, credentialFiles) ==
    IF options.withCredentials
    THEN <<TarEntry(<<"credentials-manifest.json">>,
                    JsonStringify(buildCredentialManifest(gatewayCredentials,
                                                          credentialFiles))),
           TarEntry(<<"credentials.age">>,
                    encryptCredentialVault(
                        buildCredentialVaultPayload(fsys, gatewayCredentials,
                                                    credentialFiles),
                        IF options.password # "" THEN options.password
                        ELSE env.typedPassword,
                        env.salt, env.nonce))>>
    ELSE <<>>

\* Mutant: the workspace files are packed before the manifest and the README.
PackArchiveFilesFirst(files, envMap, sanitizedGatewayConfig, cronJobsJson, vaultEntries, manifest) ==
    [status |-> "ok",
     value |-> [manifest |-> manifest, fileCount |-> Len(manifest.files),
                totalBytes |-> SumSizes(manifest.files)],
     archive |->
        <<TarEntry(<<"config", "env-map.json">>, generateEnvMapJson(envMap))>>
        \o (IF sanitizedGatewayConfig # Null
            THEN <<TarEntry(<<"config", "gateway.yaml">>, sanitizedGatewayConfig)>>
            ELSE <<>>)
        \o (IF cronJobsJson # Null
            THEN <<TarEntry(<<"config", "cron-jobs.json">>, cronJobsJson)>>
            ELSE <<>>)
        \o vaultEntries
        \o [i \in 1..Len(manifest.files) |->
                TarEntry(getArchivePath(manifest.files[i].path,
                                        manifest.files[i].category),
                         ContentOf(files, sanitizedGatewayConfig,
                                   manifest.files[i].path))]
        \o <<TarEntry(<<"manifest.json">>, JsonStringify(manifest)),
             TarEntry(<<"README.md">>, generateReadme(manifest))>>]

\* The entries in the order pack.entry is called, and the BackupResult.
PackArchive(files, envMap, sanitizedGatewayConfig, cronJobsJson, vaultEntries, manifest) ==
    [status |-> "ok",
     value |-> [manifest |-> manifest, fileCount |-> Len(manifest.files),
                totalBytes |-> SumSizes(manifest.files)],
     archive |->
        <<TarEntry(<<"config", "env-map.json">>, generateEnvMapJson(envMap))>>
        \o (IF sanitizedGatewayConfig # Null
            THEN <<TarEntry(<<"config", "gateway.yaml">>, sanitizedGatewayConfig)>>
            ELSE <<>>)
        \o (IF cronJobsJson # Null
            THEN <<TarEntry(<<"config", "cron-jobs.json">>, cronJobsJson)>>
            ELSE <<>>)
        \o vaultEntries
        \o <<TarEntry(<<"manifest.json">>, JsonStringify(manifest)),
             TarEntry(<<"README.md">>, generateReadme(manifest))>>
        \o [i \in 1..Len(manifest.files) |->
                TarEntry(getArchivePath(manifest.files[i].path,
                                        manifest.files[i].category),
                         ContentOf(files, sanitizedGatewayConfig,
                                   manifest.files[i].path))]]

\* createBackup from the gateway extraction on.
BackupFiles(fsys, workspace, options, env, envMap, manifest0, gatewayExtraction, credentialFiles) ==
    LET sanitizedGatewayConfig ==
            IF gatewayExtraction # Null THEN gatewayExtraction.sanitizedConfig ELSE Null
        gatewayCredentials ==
            IF gatewayExtraction # Null THEN gatewayExtraction.credentials ELSE <<>>
        paths == resolveCredentialPathsInWorkspace(workspace, credentialFiles)
    IN PackArchive(fsys[workspace].files, envMap, sanitizedGatewayConfig,
                   exportCronJobs(env.cliCron, envMap),
                   VaultEntries(fsys, options, env, gatewayCredentials, credentialFiles),
                   RecomputeManifest(manifest0, fsys[workspace].files,
                                     sanitizedGatewayConfig,
                                     {paths[i] : i \in 1..Len(paths)},
                                     options.withCredentials))

\* createBackup once the credential files are detected.
BackupDetected(fsys, workspace, options, env, gatewayConfig, detected) ==
    IF detected.status = "error" THEN detected
    ELSE BackupFiles(fsys, workspace, options, env,
                     createEnvMap(workspace, HomeDir),
                     createManifest(fsys[workspace].files, workspace, env.listing,
                                    options.exclude),
                     IF gatewayConfig # Null THEN extractGatewayCredentials(gatewayConfig)
                     ELSE Null,
                     detected.value)

createBackup(fsys, options, env) ==
    LET workspace == discoverWorkspace(fsys, options.workspace)
    IN IF workspace = NoPath THEN Err("Workspace not found")
       ELSE IF options.includeCredential # <<>> /\ ~options.withCredentials
       THEN Err("--include-credential requires --with-credentials")
       ELSE BackupDetected(fsys, workspace, options, env,
                           exportGatewayConfig(fsys[workspace].files, env.cliGateway,
                                               createEnvMap(workspace, HomeDir)),
                           detectCredentialFiles(fsys, workspace, env.listing,
                                                 options.includeCredential))

(***************************************************************************)
(* verifyArchive (verify.ts) and restoreBackup (restore.ts)                *)
(***************************************************************************)
\* The Map the tar reader fills: a later entry replaces an earlier entry of
\* the same name.
ReadEntries(tarEntries) ==
    [n \in {tarEntries[i].name : i \in 1..Len(tarEntries)} |->
        LET at == {i \in 1..Len(tarEntries) : tarEntries[i].name = n}
        IN tarEntries[CHOOSE i \in at : \A j \in at : j <= i].content]

\* manifest.checksums[path], undefined when the path has no checksum.
ChecksumOf(manifest, path) ==
    IF path \in DOMAIN manifest.checksums THEN manifest.checksums[path] ELSE Null

\* The status of one manifest file against the entries read.
FileStatus(manifest, entries, fileEntry) ==
    LET archiveEntryPath == getArchivePath(fileEntry.path, fileEntry.category)
    IN IF archiveEntryPath \notin DOMAIN entries THEN "missing"
       ELSE IF Sha256(entries[archiveEntryPath]) # ChecksumOf(manifest, fileEntry.path)
       THEN "corrupted"
       ELSE "ok"

\* Mutant: the loop stops at the first file that is not ok.
verifyArchiveStopAtFirstBad(tarEntries) ==
    LET entries == ReadEntries(tarEntries)
    IN IF <<"manifest.json">> \notin DOMAIN entries
       THEN [valid |-> FALSE, files |-> <<>>,
             error |-> "Archive does not contain manifest.json"]
       ELSE IF ~IsJson(entries[<<"manifest.json">>])
       THEN [valid |-> FALSE, files |-> <<>>, error |-> "manifest.json is not valid JSON"]
       ELSE LET manifest == JsonParse(entries[<<"manifest.json">>])
                bad == {i \in 1..Len(manifest.files) :
                           FileStatus(manifest, entries, manifest.files[i]) # "ok"}
                last == IF bad = {} THEN Len(manifest.files)
                        ELSE CHOOSE i \in bad : \A j \in bad : i <= j
            IN [valid |-> bad = {},
                manifest |-> manifest,
                files |-> [i \in 1..last |->
                            [path |-> manifest.files[i].path,
                             status |-> FileStatus(manifest, entries, manifest.files[i])]]]

verifyArchive(tarEntries) ==
    LET entries == ReadEntries(tarEntries)
    IN IF <<"manifest.json">> \notin DOMAIN entries
       THEN [valid |-> FALSE, files |-> <<>>,
             error |-> "Archive does not contain manifest.json"]
       ELSE IF ~IsJson(entries[<<"manifest.json">>])
       THEN [valid |-> FALSE, files |-> <<>>, error |-> "manifest.json is not valid JSON"]
       ELSE LET manifest == JsonParse(entries[<<"manifest.json">>])
                fileResults ==
                    [i \in 1..Len(manifest.files) |->
                        [path |-> manifest.files[i].path,
                         status |-> FileStatus(manifest, entries, manifest.files[i])]]
            IN [valid |-> \A i \in 1..Len(fileResults) : fileResults[i].status = "ok",
                manifest |-> manifest,
                files |-> fileResults]

PATH_REMAP_FILES ==
    {<<"TOOLS.md">>, <<"config", "gateway.yaml">>, <<"HEARTBEAT.md">>, <<"AGENTS.md">>}
IDENTITY_FILES == <<<<"SOUL.md">>, <<"AGENTS.md">>>>
PROTECTED_FILES ==
    <<"SOUL.md", "IDENTITY.md", "MEMORY.md", "AGENTS.md", "USER.md", "HEARTBEAT.md",
      "TOOLS.md">>
RESTORE_MARKER == <<".clawback-restored">>
FIXUP_SCRIPT == <<"restore-fixup.sh">>

writeRestoreArtifacts(fsys, targetDir, fileCount) ==
    [fsys EXCEPT ![targetDir].files =
        (RESTORE_MARKER :> JsonStringify([fileCount |-> fileCount,
                                         protectedFiles |-> PROTECTED_FILES]))
        @@ (FIXUP_SCRIPT :> [script |-> PROTECTED_FILES])
        @@ @]

\* Mutant: a file of the rewrite set is flagged whether or not it changed.
RestoredContentFlagged(content, path, oldEnvMap, newEnvMap) ==
    LET withNewPaths == RemapText(RemapText(content, oldEnvMap, TRUE), newEnvMap, FALSE)
    IN IF path \in PATH_REMAP_FILES /\ oldEnvMap # <<>>
       THEN [content |-> withNewPaths, remapped |-> TRUE]
       ELSE [content |-> content, remapped |-> FALSE]

\* What step 7 makes of one manifest file: the bytes written and the flag.
RestoredContent(content, path, oldEnvMap, newEnvMap) ==
    LET withNewPaths == RemapText(RemapText(content, oldEnvMap, TRUE), newEnvMap, FALSE)
    IN IF path \in PATH_REMAP_FILES /\ oldEnvMap # <<>> /\ withNewPaths # content
       THEN [content |-> withNewPaths, remapped |-> TRUE]
       ELSE [content |-> content, remapped |-> FALSE]

\* path.join(targetDir, fileEntry.path): a '..' segment climbs one directory.
RECURSIVE joinPath(_, _)
joinPath(dir, relPath) ==
    IF relPath = <<>> THEN dir
    ELSE IF Head(relPath) = ".."
    THEN joinPath(SubSeq(dir, 1, Len(dir) - 1), Tail(relPath))
    ELSE joinPath(Append(dir, "/" \o Head(relPath)), Tail(relPath))

\* The writeFileSync calls of step 7, in manifest order.
StepSevenWrites(targetDir, manifestFiles, entries, oldEnvMap, newEnvMap) ==
    [k \in 1..Len(manifestFiles) |->
        LET fileEntry == manifestFiles[k]
            content == entries[getArchivePath(fileEntry.path, fileEntry.category)]
        IN [at |-> joinPath(targetDir, fileEntry.path),
            path |-> fileEntry.path,
            archived |-> content,
            written |-> RestoredContent(content, fileEntry.path,
                                        oldEnvMap, newEnvMap).content]]

\* The directories after the writes of step 7.
RECURSIVE ExtractFiles(_, _, _)
ExtractFiles(fsys, writes, k) ==
    IF k > Len(writes) THEN fsys
    ELSE ExtractFiles(WriteAbs(fsys, writes[k].at, writes[k].written), writes, k + 1)

\* Mutant: step 7 writes the files whatever options.dryRun says.
ExtractAllWrites(fsys, targetDir, manifestFiles, entries, oldEnvMap, newEnvMap, dryRun) ==
    ExtractFiles([fsys EXCEPT ![targetDir].exists = TRUE],
                 StepSevenWrites(targetDir, manifestFiles, entries, oldEnvMap, newEnvMap),
                 1)

\* Step 7 on the directories: mkdirSync of the target and the writes, unless
\* this is a dry run.
ExtractAll(fsys, targetDir, manifestFiles, entries, oldEnvMap, newEnvMap, dryRun) ==
    IF dryRun THEN fsys
    ELSE ExtractFiles([fsys EXCEPT ![targetDir].exists = TRUE],
                      StepSevenWrites(targetDir, manifestFiles, entries, oldEnvMap,
                                      newEnvMap),
                      1)

\* Step 7.5, given the directories after step 7: the directories after it and
\* the error thrown, "" when none.  typedPassword and typedKey are what the
\* user answers to the prompts.
RestoreCredentials(fsys, entries, targetDir, options, oldEnvMap, newEnvMap, env) ==
    LET gatewayPath == <<"config", "gateway.yaml">>
        hasGateway == gatewayPath \in DOMAIN fsys[targetDir].files
    IN IF <<"credentials.age">> \in DOMAIN entries
       THEN LET password == IF options.password # "" THEN options.password
                            ELSE env.typedPassword
                opened == decryptCredentialVault(entries[<<"credentials.age">>], password)
                vault == opened.value
                restored == restoreCredentialFiles(fsys, vault.files, oldEnvMap, newEnvMap)
                hasGatewayNow == gatewayPath \in DOMAIN restored[targetDir].files
                effects == (IF options.password # "" THEN {} ELSE {"prompt"}) \cup {"decrypt"}
            IN IF opened.status = "error"
               THEN [fs |-> fsys, error |-> opened.error, effects |-> effects]
               ELSE IF hasGatewayNow /\ vault.gateway # <<>>
               THEN [fs |-> [restored EXCEPT ![targetDir].files[gatewayPath] =
                                injectGatewayCredentials(@, vault.gateway)],
                     error |-> "", effects |-> effects]
               ELSE [fs |-> restored, error |-> "", effects |-> effects]
       ELSE LET current == fsys[targetDir].files[gatewayPath]
                targets == findGatewayCredentialTargets(current)
            IN IF hasGateway /\ targets # <<>> /\ Trim(env.typedKey) # <<>>
               THEN [fs |-> [fsys EXCEPT ![targetDir].files[gatewayPath] =
                                injectGatewayCredentials(
                                    current,
                                    <<[keyPath |-> targets[1].keyPath,
                                       value |-> Trim(env.typedKey)]>>)],
                     error |-> "", effects |-> {"prompt"}]
               ELSE [fs |-> fsys, error |-> "",
                     effects |-> IF hasGateway /\ targets # <<>> THEN {"prompt"} ELSE {}]

\* Steps 2 to 8 of restoreBackup: what it returns or throws, and the
\* directories it leaves.
RestoreSteps(fsys, tarEntries, options, env) ==
    LET targetDir == options.workspace
        entries == ReadEntries(tarEntries)
        manifest == JsonParse(entries[<<"manifest.json">>])
        bad == {i \in 1..Len(manifest.files) :
                    FileStatus(manifest, entries, manifest.files[i]) # "ok"}
        firstBad == manifest.files[CHOOSE i \in bad : \A j \in bad : i <= j]
        hasEnvMap == <<"config", "env-map.json">> \in DOMAIN entries
        oldEnvMap == IF hasEnvMap THEN JsonParse(entries[<<"config", "env-map.json">>])
                     ELSE <<>>
        newEnvMap ==
            (IF EnvMapGet(oldEnvMap, WORKSPACE) # <<>>
             THEN <<[key |-> WORKSPACE, value |-> targetDir]>> ELSE <<>>)
            \o (IF EnvMapGet(oldEnvMap, HOME) # <<>>
                THEN <<[key |-> HOME, value |-> HomeDir]>> ELSE <<>>)
        ArchiveContent(fileEntry) ==
            entries[getArchivePath(fileEntry.path, fileEntry.category)]
        identityWarnings ==
            SelectSeq(IDENTITY_FILES,
                LAMBDA idFile :
                    /\ idFile \in DOMAIN fsys[targetDir].files
                    /\ \E i \in 1..Len(manifest.files) :
                          /\ manifest.files[i].path = idFile
                          /\ ArchiveContent(manifest.files[i]) # fsys[targetDir].files[idFile])
        restoredFiles ==
            [i \in 1..Len(manifest.files) |->
                [path |-> manifest.files[i].path,
                 remapped |-> RestoredContent(ArchiveContent(manifest.files[i]),
                                              manifest.files[i].path,
                                              oldEnvMap, newEnvMap).remapped]]
        extracted ==
            ExtractAll(fsys, targetDir, manifest.files, entries, oldEnvMap, newEnvMap,
                       options.dryRun)
        credentialed ==
            IF ~options.dryRun /\ ~options.skipCredentials
            THEN RestoreCredentials(extracted, entries, targetDir, options,
                                    oldEnvMap, newEnvMap, env)
            ELSE [fs |-> extracted, error |-> "", effects |-> {}]
        written ==
            IF options.dryRun THEN {}
            ELSE {"mkdir"} \cup (IF manifest.files # <<>> THEN {"write"} ELSE {})
        writes ==
            IF options.dryRun THEN <<>>
            ELSE StepSevenWrites(targetDir, manifest.files, entries, oldEnvMap, newEnvMap)
    IN IF <<"manifest.json">> \notin DOMAIN entries
       THEN [out |-> Err("Archive does not contain manifest.json"), fs |-> fsys,
             effects |-> {}, writes |-> <<>>]
       ELSE IF ~IsJson(entries[<<"manifest.json">>])
       THEN [out |-> Err("SyntaxError"), fs |-> fsys, effects |-> {},
             writes |-> <<>>]
       ELSE IF bad # {}
       THEN [out |-> [status |-> "error",
                      error |-> IF FileStatus(manifest, entries, firstBad) = "missing"
                                THEN "Archive integrity check failed: missing file"
                                ELSE "Archive integrity check failed: checksum mismatch",
                      path |-> firstBad.path],
             fs |-> fsys, effects |-> {},
             writes |-> <<>>]
       ELSE IF hasEnvMap /\ ~IsJson(entries[<<"config", "env-map.json">>])
       THEN [out |-> Err("SyntaxError"), fs |-> fsys, effects |-> {},
             writes |-> <<>>]
       ELSE IF credentialed.error # ""
       THEN [out |-> Err(credentialed.error), fs |-> credentialed.fs,
             effects |-> written \cup credentialed.effects, writes |-> writes]
       ELSE [out |-> Ok([targetDir |-> targetDir,
                         restoredFiles |-> restoredFiles,
                         identityWarnings |-> identityWarnings,
                         missingDeps |-> <<>>,
                         dryRun |-> options.dryRun]),
             fs |-> IF options.dryRun THEN credentialed.fs
                    ELSE writeRestoreArtifacts(credentialed.fs, targetDir,
                                               Len(restoredFiles)),
             effects |-> written \cup credentialed.effects
                         \cup (IF options.dryRun THEN {} ELSE {"artifacts"}),
             writes |-> writes]

\* Mutant: the target directory is created as soon as it is known.
restoreBackupMkdirFirst(fsys, tarEntries, options, env) ==
    IF options.workspace = NoPath
    THEN [out |-> Err("The --workspace flag is required for restore"), fs |-> fsys,
          effects |-> {}, writes |-> <<>>]
    ELSE LET done == RestoreSteps(fsys, tarEntries, options, env)
         IN [out |-> done.out,
             fs |-> [done.fs EXCEPT ![options.workspace].exists = TRUE],
             effects |-> done.effects, writes |-> done.writes]

restoreBackup(fsys, tarEntries, options, env) ==
    IF options.workspace = NoPath
    THEN [out |-> Err("The --workspace flag is required for restore"), fs |-> fsys,
          effects |-> {}, writes |-> <<>>]
    ELSE RestoreSteps(fsys, tarEntries, options, env)

(***************************************************************************)
(* Diff (diff.ts)                                                          *)
(***************************************************************************)
\* The drawn paths in the order of String.localeCompare.
PathCollation ==
    <<<<"..x.token">>, <<".env">>, <<"a.yaml">>, <<"config", "a.yaml">>,
      <<"config", "env-map.json">>, <<"config", "gateway.yaml">>, <<"memory", "d.md">>,
      <<"SOUL.md">>, <<"TOOLS.md">>>>

\* Mutant: the empty segment after a trailing newline is counted as a line.
countLinesTrailing(content) ==
    IF IsText(content)
    THEN IF content.t = <<>> THEN 0
         ELSE Cardinality({i \in 1..Len(content.t) : content.t[i] = "\n"}) + 1
    ELSE IF Parses(content) THEN Len(RenderYaml(content.yaml))
    ELSE IF IsLines(content) THEN Len(content.lines)
    ELSE 1

\* countLines of a content read as utf-8: the token "\n" ends a line.
countLines(content) ==
    IF IsText(content)
    THEN IF content.t = <<>> THEN 0
         ELSE LET newlines == Cardinality({i \in 1..Len(content.t) : content.t[i] = "\n"})
              IN IF content.t[Len(content.t)] = "\n" THEN newlines ELSE newlines + 1
    ELSE IF Parses(content) THEN Len(RenderYaml(content.yaml))
    ELSE IF IsLines(content) THEN Len(content.lines)
    ELSE 1

\* The keys of new Map(files.map(f => [f.path, f])), in insertion order.
RECURSIVE MapKeys(_)
MapKeys(fileEntries) ==
    IF fileEntries = <<>> THEN <<>>
    ELSE LET rest == MapKeys(SubSeq(fileEntries, 1, Len(fileEntries) - 1))
             path == fileEntries[Len(fileEntries)].path
         IN IF \E i \in 1..Len(rest) : rest[i] = path THEN rest ELSE Append(rest, path)

\* The manifest of an archive and the content stored for each manifest path.
extractArchiveContents(tarEntries) ==
    LET entries == ReadEntries(tarEntries)
    IN IF <<"manifest.json">> \notin DOMAIN entries
       THEN Err("Archive does not contain manifest.json")
       ELSE IF ~IsJson(entries[<<"manifest.json">>]) THEN Err("SyntaxError")
       ELSE LET manifest == JsonParse(entries[<<"manifest.json">>])
                stored == {i \in 1..Len(manifest.files) :
                              getArchivePath(manifest.files[i].path,
                                             manifest.files[i].category) \in DOMAIN entries}
            IN Ok([manifest |-> manifest,
                   contents |->
                      [q \in {manifest.files[i].path : i \in stored} |->
                          LET at == {i \in stored : manifest.files[i].path = q}
                              last == CHOOSE i \in at : \A j \in at : j <= i
                          IN entries[getArchivePath(q, manifest.files[last].category)]]])

\* entries.sort((a, b) => a.path.localeCompare(b.path)): a stable sort.
SortByPath(diffEntries) ==
    ConcatAll([k \in 1..Len(PathCollation) |->
                  SelectSeq(diffEntries, LAMBDA e : e.path = PathCollation[k])])

\* The DiffEntry of a path of the old side.
OldSideEntry(path, oldManifest, newManifest, newKeys, oldContents, newContents) ==
    IF ~\E i \in 1..Len(newKeys) : newKeys[i] = path
    THEN [path |-> path, status |-> "deleted"]
    ELSE IF (IF path \in DOMAIN oldManifest.checksums THEN oldManifest.checksums[path]
             ELSE Null)
            = (IF path \in DOMAIN newManifest.checksums THEN newManifest.checksums[path]
               ELSE Null)
    THEN [path |-> path, status |-> "unchanged"]
    ELSE LET oldLines == IF path \in DOMAIN oldContents THEN countLines(oldContents[path])
                         ELSE 0
             newLines == IF path \in DOMAIN newContents THEN countLines(newContents[path])
                         ELSE 0
         IN [path |-> path, status |-> "modified",
             linesAdded |-> IF newLines > oldLines THEN newLines - oldLines ELSE 0,
             linesRemoved |-> IF oldLines > newLines THEN oldLines - newLines ELSE 0]

\* Mutant: the loop over the paths that are only in the new side is left out.
DiffEntriesOldOnly(oldManifest, newManifest, oldKeys, newKeys, oldContents, newContents) ==
    SortByPath(
        [i \in 1..Len(oldKeys) |->
            OldSideEntry(oldKeys[i], oldManifest, newManifest, newKeys, oldContents,
                         newContents)])

\* The two loops and the sort that both diff functions run.
DiffEntries(oldManifest, newManifest, oldKeys, newKeys, oldContents, newContents) ==
    SortByPath(
        [i \in 1..Len(oldKeys) |->
            OldSideEntry(oldKeys[i], oldManifest, newManifest, newKeys, oldContents,
                         newContents)]
        \o [i \in 1..Len(SelectSeq(newKeys, LAMBDA q : ~\E j \in 1..Len(oldKeys) : oldKeys[j] = q)) |->
               [path |-> SelectSeq(newKeys,
                                   LAMBDA q : ~\E j \in 1..Len(oldKeys) : oldKeys[j] = q)[i],
                status |-> "added"]])

DiffExtracted(old, new) ==
    IF old.status = "error" THEN old
    ELSE IF new.status = "error" THEN new
    ELSE Ok([entries |->
                DiffEntries(old.value.manifest, new.value.manifest,
                            MapKeys(old.value.manifest.files),
                            MapKeys(new.value.manifest.files),
                            old.value.contents, new.value.contents)])

diffArchiveVsArchive(tarEntriesA, tarEntriesB) ==
    DiffExtracted(extractArchiveContents(tarEntriesA), extractArchiveContents(tarEntriesB))

\* The live side: createManifest of the workspace and the files read from it.
LiveContents(fsys, workspacePath, listing) ==
    Ok([manifest |-> createManifest(fsys[workspacePath].files, workspacePath, listing, <<>>),
        contents |-> fsys[workspacePath].files])

diffArchiveVsWorkspace(tarEntries, fsys, workspacePath, listing) ==
    DiffExtracted(extractArchiveContents(tarEntries),
                  LiveContents(fsys, workspacePath, listing))

(***************************************************************************)
(* Diff on drawn archives and workspaces                                   *)
(***************************************************************************)
DiffPaths == {<<"SOUL.md">>, <<"a.yaml">>, <<"memory", "d.md">>}
DiffTexts == {Text(<<>>), Text(<<"x">>), Text(<<"x", "\n">>), Text(<<"x", "\n", "y">>)}
DiffSnapshots ==
    UNION {[P -> DiffTexts] : P \in SUBSET DiffPaths}

\* An archive holding a manifest of the snapshot and its files.
PackSnapshot(files) ==
    LET manifest == createManifest(files, WsRoot, Collation, <<>>)
    IN <<TarEntry(<<"manifest.json">>, JsonStringify(manifest))>>
       \o [i \in 1..Len(manifest.files) |->
              TarEntry(getArchivePath(manifest.files[i].path, manifest.files[i].category),
                       files[manifest.files[i].path])]

DiffArchives == {PackSnapshot(f) : f \in DiffSnapshots} \cup {<<>>}

DiffIdle == dfOld = <<>> /\ dfNew = <<>> /\ dfResult = Null /\ dfPc = "idle"

DiffInit ==
    /\ dfOld \in DiffArchives
    /\ dfNew \in DiffSnapshots
    /\ dfResult = Null
    /\ dfPc = "input"

DiffArchive ==
    /\ dfPc = "input"
    /\ dfResult' = diffArchiveVsArchive(dfOld, PackSnapshot(dfNew))
    /\ dfPc' = "archives"
    /\ UNCHANGED <<dfOld, dfNew>>
    /\ UNCHANGED <<remapVars, cryptoVars, credVars, mainVars, scanVars, openVars, runVars, cliVars>>

DiffWorkspace ==
    /\ dfPc = "input"
    /\ \E listing \in ReaddirOrders :
          dfResult' = diffArchiveVsWorkspace(dfOld,
                         (WsRoot :> [exists |-> TRUE, files |-> dfNew]), WsRoot, listing)
    /\ dfPc' = "workspace"
    /\ UNCHANGED <<dfOld, dfNew>>
    /\ UNCHANGED <<remapVars, cryptoVars, credVars, mainVars, scanVars, openVars, runVars, cliVars>>

DiffNext == DiffArchive \/ DiffWorkspace

(***************************************************************************)
(* Backup, tampering, verify and restore on drawn workspaces               *)
(*                                                                         *)
(* No drawn TOOLS.md has a tool line, so step 8 of restoreBackup reports   *)
(* no missing dependency.                                                  *)
(***************************************************************************)
DefaultBackupOptions ==
    [workspace |-> WsRoot, exclude |-> <<>>, withCredentials |-> FALSE,
     includeCredential |-> <<>>, password |-> ""]
BackupOptionChoices ==
    {DefaultBackupOptions,
     [DefaultBackupOptions EXCEPT !.exclude = <<[dir |-> <<"memory">>]>>],
     [DefaultBackupOptions EXCEPT !.withCredentials = TRUE, !.password = "pw1"],
     [DefaultBackupOptions EXCEPT !.withCredentials = TRUE],
     [DefaultBackupOptions EXCEPT !.withCredentials = TRUE, !.password = "pw1",
                                  !.includeCredential = <<AbsPath(WsRoot, <<"SOUL.md">>)>>],
     [DefaultBackupOptions EXCEPT !.includeCredential = <<AbsPath(WsRoot, <<"SOUL.md">>)>>],
     [DefaultBackupOptions EXCEPT !.workspace = FreshTarget]}

CliGatewayOutput ==
    [yaml |-> MapOf(<<[key |-> "token", val |-> Str(<<"sk2">>)]>>), canon |-> FALSE]
CliCronOutput == JsonStringify(<<[payload |-> [text |-> <<"run">> \o WsRoot]]>>)
DefaultBackupEnv ==
    [listing |-> Collation, cliGateway |-> Null, cliCron |-> Null,
     typedPassword |-> "pw1", salt |-> "s1", nonce |-> "n1"]
BackupEnvs ==
    {DefaultBackupEnv,
     [DefaultBackupEnv EXCEPT !.listing = Reverse(Collation)],
     [DefaultBackupEnv EXCEPT !.cliGateway = CliGatewayOutput],
     [DefaultBackupEnv EXCEPT !.cliCron = CliCronOutput]}

DefaultRestoreOptions ==
    [workspace |-> FreshTarget, dryRun |-> FALSE, skipCredentials |-> FALSE,
     password |-> ""]
RestoreOptionChoices ==
    {DefaultRestoreOptions,
     [DefaultRestoreOptions EXCEPT !.workspace = NoPath],
     [DefaultRestoreOptions EXCEPT !.workspace = UsedTarget],
     [DefaultRestoreOptions EXCEPT !.dryRun = TRUE],
     [DefaultRestoreOptions EXCEPT !.dryRun = TRUE, !.workspace = UsedTarget],
     [DefaultRestoreOptions EXCEPT !.skipCredentials = TRUE],
     [DefaultRestoreOptions EXCEPT !.password = "pw2"]}
RestoreEnvs == {[typedPassword |-> "pw1", typedKey |-> k] : k \in {<<>>, <<"sk9">>}}

RunIdle ==
    /\ runPc = "idle" /\ runStart = <<>> /\ runFiles = <<>> /\ runExported = Null
    /\ runEnv = Null /\ runLog = <<>> /\ runOut = <<>> /\ runResult = Null

MainIdle ==
    /\ phase = "idle" /\ fs = <<>> /\ tampered = NoPath
    /\ bkOptions = Null /\ bkResult = Null /\ archiveFile = <<>>
    /\ vResult = Null /\ rOptions = Null /\ rBefore = <<>> /\ rResult = Null
    /\ rWrites = <<>> /\ rEffects = {} /\ dResult = Null

Init ==
    /\ \E tree \in WorkspaceTrees :
          fs = [r \in Roots |->
                  IF r = WsRoot THEN [exists |-> TRUE, files |-> tree]
                  ELSE IF r = UsedTarget
                  THEN [exists |-> TRUE, files |-> (<<"SOUL.md">> :> Text(<<"old">>))]
                  ELSE NoDir]
    /\ phase = "ready"
    /\ tampered = NoPath
    /\ bkOptions = Null /\ bkResult = Null /\ archiveFile = <<>>
    /\ vResult = Null /\ rOptions = Null /\ rBefore = <<>> /\ rResult = Null
    /\ rWrites = <<>> /\ rEffects = {} /\ dResult = Null
    /\ RemapIdle /\ CryptoIdle /\ CredIdle /\ DiffIdle /\ ScanIdle /\ OpenIdle /\ RunIdle /\ CliIdle

BackupDone(options, done) ==
    /\ bkOptions' = options
    /\ bkResult' = IF done.status = "ok" THEN Ok(done.value) ELSE done
    /\ archiveFile' = IF done.status = "ok" THEN done.archive ELSE <<>>
    /\ phase' = IF done.status = "ok" THEN "archived" ELSE "failed"

Backup ==
    /\ phase = "ready"
    /\ \E options \in BackupOptionChoices, env \in BackupEnvs :
          BackupDone(options, createBackup(fs, options, env))
    /\ UNCHANGED <<fs, tampered, vResult, rOptions, rBefore, rResult, rWrites, rEffects, dResult>>
    /\ UNCHANGED <<remapVars, cryptoVars, credVars, diffVars, scanVars, openVars, runVars, cliVars>>

\* Someone removes one entry from the archive file.
TamperRemove ==
    /\ phase = "archived" /\ tampered = NoPath
    /\ \E i \in 1..Len(archiveFile) :
          /\ archiveFile' = SubSeq(archiveFile, 1, i - 1)
                            \o SubSeq(archiveFile, i + 1, Len(archiveFile))
          /\ tampered' = archiveFile[i].name
    /\ UNCHANGED <<fs, phase, bkOptions, bkResult, vResult, rOptions, rBefore, rResult, rWrites, rEffects, dResult>>
    /\ UNCHANGED <<remapVars, cryptoVars, credVars, diffVars, scanVars, openVars, runVars, cliVars>>

\* Someone alters the content of one entry of the archive file.
TamperCorrupt ==
    /\ phase = "archived" /\ tampered = NoPath
    /\ \E i \in 1..Len(archiveFile) :
          /\ archiveFile' = [archiveFile EXCEPT ![i].content = Text(<<"corrupt">>)]
          /\ tampered' = archiveFile[i].name
    /\ UNCHANGED <<fs, phase, bkOptions, bkResult, vResult, rOptions, rBefore, rResult, rWrites, rEffects, dResult>>
    /\ UNCHANGED <<remapVars, cryptoVars, credVars, diffVars, scanVars, openVars, runVars, cliVars>>

\* Someone hands over an archive that lists SOUL.md under a path that climbs
\* out of the directory it is restored into; entry name and checksum agree with
\* the path, as the integrity check wants them.
CraftedPath == <<"..", "u", "w", "SOUL.md">>
CraftManifest(manifest, k) ==
    [manifest EXCEPT
        !.files = [@ EXCEPT ![k].path = CraftedPath],
        !.checksums = [q \in (DOMAIN @ \ {manifest.files[k].path}) \cup {CraftedPath} |->
                          IF q = CraftedPath THEN @[manifest.files[k].path] ELSE @[q]]]
CraftArchive(tarEntries, manifest, k) ==
    [i \in 1..Len(tarEntries) |->
        IF tarEntries[i].name = <<"manifest.json">>
        THEN TarEntry(<<"manifest.json">>, JsonStringify(CraftManifest(manifest, k)))
        ELSE IF tarEntries[i].name
                  = getArchivePath(manifest.files[k].path, manifest.files[k].category)
        THEN TarEntry(getArchivePath(CraftedPath, manifest.files[k].category),
                      tarEntries[i].content)
        ELSE tarEntries[i]]

TamperPath ==
    /\ phase = "archived" /\ tampered = NoPath
    /\ \E k \in 1..Len(bkResult.value.manifest.files) :
          /\ bkResult.value.manifest.files[k].path = <<"SOUL.md">>
          /\ archiveFile' = CraftArchive(archiveFile, bkResult.value.manifest, k)
          /\ tampered' = <<"agent", "SOUL.md">>
    /\ UNCHANGED <<fs, phase, bkOptions, bkResult, vResult, rOptions, rBefore, rResult, rWrites, rEffects, dResult>>
    /\ UNCHANGED <<remapVars, cryptoVars, credVars, diffVars, scanVars, openVars, runVars, cliVars>>

Verify ==
    /\ phase = "archived"
    /\ vResult' = verifyArchive(archiveFile)
    /\ phase' = "verified"
    /\ UNCHANGED <<fs, tampered, bkOptions, bkResult, archiveFile, rOptions, rBefore, rResult, rWrites, rEffects, dResult>>
    /\ UNCHANGED <<remapVars, cryptoVars, credVars, diffVars, scanVars, openVars, runVars, cliVars>>

RestoreDone(options, done) ==
    /\ rOptions' = options
    /\ rBefore' = fs
    /\ fs' = done.fs
    /\ rResult' = done.out
    /\ rWrites' = done.writes
    /\ rEffects' = done.effects

Restore ==
    /\ phase = "archived"
    /\ \E options \in RestoreOptionChoices, env \in RestoreEnvs :
          RestoreDone(options, restoreBackup(fs, archiveFile, options, env))
    /\ phase' = "restored"
    /\ UNCHANGED <<tampered, bkOptions, bkResult, archiveFile, vResult, dResult>>
    /\ UNCHANGED <<remapVars, cryptoVars, credVars, diffVars, scanVars, openVars, runVars, cliVars>>

Diff ==
    /\ phase = "archived"
    /\ \E listing \in ReaddirOrders :
          dResult' = diffArchiveVsWorkspace(archiveFile, fs, WsRoot, listing)
    /\ phase' = "diffed"
    /\ UNCHANGED <<fs, tampered, bkOptions, bkResult, archiveFile, vResult, rOptions, rBefore, rResult, rWrites, rEffects>>
    /\ UNCHANGED <<remapVars, cryptoVars, credVars, diffVars, scanVars, openVars, runVars, cliVars>>

Next == Backup \/ TamperRemove \/ TamperCorrupt \/ TamperPath \/ Verify \/ Restore \/ Diff

(***************************************************************************)
(* postRestoreRun (restore.ts)                                             *)
(*                                                                         *)
(* The content of a cron-jobs.json that holds a JSON array is              *)
(* JsonStringify(ListOf(jobs)); the file exportCronJobs writes holds an    *)
(* object with the fields version and jobs.                                *)
(***************************************************************************)
GatewayPath == <<"config", "gateway.yaml">>
CronPath == <<"config", "cron-jobs.json">>

\* Mutant: no config is taken to hold a provider key.
hasValidProviderKeyNever(parsed) == FALSE

hasValidProviderKey(parsed) ==
    /\ parsed # Null
    /\ IsMap(parsed)
    /\ \E provider \in {"anthropic", "openai"} :
          LET at == KeyIndex(parsed.kv, provider)
              section == parsed.kv[at].val
              k == KeyIndex(section.kv, "apiKey")
              apiKey == section.kv[k].val
          IN /\ at # 0 /\ IsMap(section)
             /\ k # 0 /\ IsStr(apiKey)
             /\ Trim(apiKey.s) # <<>> /\ Trim(apiKey.s) # REDACTED_VALUE

ensureAnthropicKey(parsed, key) ==
    IF parsed = Null \/ ~(IsMap(parsed) \/ IsList(parsed))
    THEN MapOf(<<[key |-> "anthropic",
                  val |-> MapOf(<<[key |-> "apiKey", val |-> Str(key)]>>)]>>)
    ELSE SetInMap(parsed, <<"anthropic", "apiKey">>, key)

\* The jobs importCronJobs runs `openclaw cron add` for.
importCronJobs(files, cronPath) ==
    IF cronPath \notin DOMAIN files THEN <<>>
    ELSE IF ~IsJson(files[cronPath]) THEN <<>>
    ELSE IF ~IsList(JsonParse(files[cronPath])) THEN <<>>
    ELSE JsonParse(files[cronPath]).items

\* The events of the log.
Command(cmd) == [cmd |-> cmd]
CronAdd(job) == [cmd |-> "openclaw cron add", payload |-> JsonStringify(job)]
PromptKey == [prompt |-> "Enter your Anthropic API key (or press Enter to skip): "]

Line(text) == [line |-> text]
NOT_FOUND_LINE == "OpenClaw not found. Install it: npm install -g openclaw"
RUNNING_LINE == "Agent is running"
HEALTH_FAILED_LINE == "Gateway started but health check failed - check logs"

\* parseYaml(current), null when it throws.
ParsedOrNull(current) == IF Parses(current) THEN parseYaml(current) ELSE Null

\* --- postRestoreRun on drawn workspaces -------------------------------------
JobOne == [payload |-> [text |-> <<"run">> \o WsRoot]]
JobTwo == [payload |-> [text |-> <<"sync">>]]
RedactedGateway ==
    [yaml |-> MapOf(<<[key |-> "anthropic",
                       val |-> MapOf(<<[key |-> "apiKey", val |-> Str(REDACTED_VALUE)]>>)]>>),
     canon |-> TRUE]
RunGatewayFiles ==
    {<<>>,
     GatewayPath :> [yaml |-> GatewayDoc, canon |-> FALSE],
     GatewayPath :> RedactedGateway,
     GatewayPath :> [lines |-> <<[raw |-> "{{"]>>]}
RunCronFiles ==
    {<<>>,
     CronPath :> Text(<<>>),
     CronPath :> Text(<<"x">>),
     CronPath :> JsonStringify(ListOf(<<>>)),
     CronPath :> JsonStringify(ListOf(<<JobOne>>)),
     CronPath :> JsonStringify(ListOf(<<JobOne, JobTwo>>)),
     CronPath :> JsonStringify([version |-> 1, jobs |-> <<JobOne>>])}
RunDirectories == {g @@ c : g \in RunGatewayFiles, c \in RunCronFiles}

\* A backup of a drawn workspace with the cron jobs the CLI lists, restored
\* into the fresh target.
RunSourceTrees ==
    {[p \in P |-> WorkspaceFile[p]] : P \in {{<<"SOUL.md">>}, {<<"SOUL.md">>, GatewayPath}}}
RunCliCron == {Null, CliCronOutput, JsonStringify(<<JobOne, JobTwo>>)}
RunSourceFs(tree) ==
    [r \in Roots |-> IF r = WsRoot THEN [exists |-> TRUE, files |-> tree] ELSE NoDir]
RunArchive(tree, cliCron) ==
    createBackup(RunSourceFs(tree), DefaultBackupOptions,
                 [DefaultBackupEnv EXCEPT !.cliCron = cliCron]).archive
RunRestored(tree, cliCron) ==
    restoreBackup(RunSourceFs(tree), RunArchive(tree, cliCron), DefaultRestoreOptions,
                  [typedPassword |-> "pw1", typedKey |-> <<>>]).fs[FreshTarget].files
RunExportedJobs(cliCron) ==
    IF exportCronJobs(cliCron, createEnvMap(WsRoot, HomeDir)) = Null THEN <<>>
    ELSE JsonParse(exportCronJobs(cliCron, createEnvMap(WsRoot, HomeDir))).jobs

RunEnvs ==
    [installed : BOOLEAN, typedKey : {<<>>, <<"sk9">>}, addOk : BOOLEAN,
     startOk : BOOLEAN, healthOk : BOOLEAN]

RunInit ==
    /\ \/ runStart \in RunDirectories /\ runExported = Null
       \/ \E tree \in RunSourceTrees, cliCron \in RunCliCron :
             /\ runStart = RunRestored(tree, cliCron)
             /\ runExported = [jobs |-> RunExportedJobs(cliCron)]
    /\ runFiles = runStart
    /\ runEnv \in RunEnvs
    /\ runLog = <<>> /\ runOut = <<>> /\ runResult = Null
    /\ runPc = "check"

\* execSync('openclaw --version')
RunCheck ==
    /\ runPc = "check"
    /\ runLog' = Append(runLog, Command("openclaw --version"))
    /\ IF runEnv.installed
       THEN runPc' = "key" /\ UNCHANGED <<runOut, runResult>>
       ELSE /\ runOut' = Append(runOut, Line(NOT_FOUND_LINE))
            /\ runResult' = Err("OPENCLAW_NOT_FOUND")
            /\ runPc' = "done"
    /\ UNCHANGED <<runStart, runFiles, runExported, runEnv>>
    /\ UNCHANGED <<remapVars, cryptoVars, credVars, mainVars, diffVars, scanVars, openVars, cliVars>>

\* The gateway config gets the key the user types when it has none.
RunKey ==
    /\ runPc = "key"
    /\ IF GatewayPath \in DOMAIN runFiles
          /\ ~hasValidProviderKey(ParsedOrNull(runFiles[GatewayPath]))
       THEN /\ runLog' = Append(runLog, PromptKey)
            /\ runFiles' =
                  IF Trim(runEnv.typedKey) # <<>>
                  THEN [runFiles EXCEPT ![GatewayPath] =
                          stringifyYaml(ensureAnthropicKey(ParsedOrNull(@),
                                                           Trim(runEnv.typedKey)))]
                  ELSE runFiles
       ELSE UNCHANGED <<runLog, runFiles>>
    /\ runPc' = "cron"
    /\ UNCHANGED <<runStart, runExported, runEnv, runOut, runResult>>
    /\ UNCHANGED <<remapVars, cryptoVars, credVars, mainVars, diffVars, scanVars, openVars, cliVars>>

\* importCronJobs: the first `openclaw cron add` throws when addOk is false.
RunCron ==
    /\ runPc = "cron"
    /\ LET jobs == importCronJobs(runFiles, CronPath)
       IN IF jobs # <<>> /\ ~runEnv.addOk
          THEN /\ runLog' = Append(runLog, CronAdd(jobs[1]))
               /\ runResult' = Err("Command failed: openclaw cron add")
               /\ runPc' = "done"
               /\ UNCHANGED runOut
          ELSE /\ runLog' = runLog \o [i \in 1..Len(jobs) |-> CronAdd(jobs[i])]
               /\ runOut' = IF jobs # <<>>
                            THEN Append(runOut, [line |-> "Imported cron jobs.", imported |-> Len(jobs)])
                            ELSE runOut
               /\ runPc' = "start"
               /\ UNCHANGED runResult
    /\ UNCHANGED <<runStart, runFiles, runExported, runEnv>>
    /\ UNCHANGED <<remapVars, cryptoVars, credVars, mainVars, diffVars, scanVars, openVars, cliVars>>

\* execSync('openclaw gateway start')
RunStart ==
    /\ runPc = "start"
    /\ runLog' = Append(runLog, Command("openclaw gateway start"))
    /\ IF runEnv.startOk
       THEN runPc' = "health" /\ UNCHANGED runResult
       ELSE /\ runResult' = Err("Command failed: openclaw gateway start")
            /\ runPc' = "done"
    /\ UNCHANGED <<runStart, runFiles, runExported, runEnv, runOut>>
    /\ UNCHANGED <<remapVars, cryptoVars, credVars, mainVars, diffVars, scanVars, openVars, cliVars>>

\* execSync('openclaw gateway status') after the wait
RunHealth ==
    /\ runPc = "health"
    /\ runLog' = Append(runLog, Command("openclaw gateway status"))
    /\ runOut' = Append(runOut, Line(IF runEnv.healthOk THEN RUNNING_LINE
                                     ELSE HEALTH_FAILED_LINE))
    /\ runResult' = Ok(Null)
    /\ runPc' = "done"
    /\ UNCHANGED <<runStart, runFiles, runExported, runEnv>>
    /\ UNCHANGED <<remapVars, cryptoVars, credVars, mainVars, diffVars, scanVars, openVars, cliVars>>

RunNext == RunCheck \/ RunKey \/ RunCron \/ RunStart \/ RunHealth

(***************************************************************************)
(* Properties of backup, verify and restore                                *)
(***************************************************************************)
ManifestPaths(manifest) == {manifest.files[i].path : i \in 1..Len(manifest.files)}
EntryNames(tarEntries) == {tarEntries[i].name : i \in 1..Len(tarEntries)}
\* The content the reader keeps for a name that has an entry.
LastContent(tarEntries, name) ==
    LET at == {i \in 1..Len(tarEntries) : tarEntries[i].name = name}
    IN tarEntries[CHOOSE i \in at : \A j \in at : j <= i].content

\* C1: after createBackup of a workspace W and restoreBackup of that archive
\* into a fresh target directory, every file the classifier lists for W whose
\* path is not in the path-remap rewrite set exists in the target with the
\* bytes it has in W.
C1_RoundTripIdentity ==
    (/\ phase = "restored" /\ tampered = NoPath
     /\ rOptions.workspace = FreshTarget /\ ~rOptions.dryRun) =>
        \A listing \in ReaddirOrders :
            LET W == rBefore[WsRoot].files
                classified == createManifest(W, WsRoot, listing, bkOptions.exclude).files
            IN \A i \in 1..Len(classified) :
                  classified[i].path \notin PATH_REMAP_FILES =>
                      /\ classified[i].path \in DOMAIN fs[FreshTarget].files
                      /\ fs[FreshTarget].files[classified[i].path] = W[classified[i].path]

\* C2: verifyArchive on the archive createBackup has just written returns
\* valid = true with every file of the written manifest reported ok: the bytes
\* stored at getArchivePath(path, category) hash to the checksum recorded for
\* the path.
C2_FreshArchiveVerifies ==
    (phase = "verified" /\ tampered = NoPath) =>
        LET manifest == bkResult.value.manifest
        IN /\ vResult.valid
           /\ Len(vResult.files) = Len(manifest.files)
           /\ \A i \in 1..Len(manifest.files) :
                 LET f == manifest.files[i]
                     archivePath == getArchivePath(f.path, f.category)
                 IN /\ vResult.files[i] = [path |-> f.path, status |-> "ok"]
                    /\ archivePath \in EntryNames(archiveFile)
                    /\ Sha256(LastContent(archiveFile, archivePath)) = manifest.checksums[f.path]

ManifestParses ==
    /\ <<"manifest.json">> \in EntryNames(archiveFile)
    /\ IsJson(LastContent(archiveFile, <<"manifest.json">>))
ParsedManifest == JsonParse(LastContent(archiveFile, <<"manifest.json">>))

\* The status the claim gives a manifest file.
ExpectedStatus(f) ==
    LET archivePath == getArchivePath(f.path, f.category)
    IN IF archivePath \notin EntryNames(archiveFile) THEN "missing"
       ELSE IF f.path \notin DOMAIN ParsedManifest.checksums THEN "corrupted"
       ELSE IF Sha256(LastContent(archiveFile, archivePath)) # ParsedManifest.checksums[f.path]
       THEN "corrupted"
       ELSE "ok"

\* C3: for an archive whose manifest.json parses, verifyArchive returns one
\* result per manifest file, in manifest order: missing when no entry exists at
\* the file's archive path, corrupted when the entry's hash differs from the
\* recorded checksum, ok otherwise; valid is true exactly when every status is
\* ok; the status of a file depends on no other file.
C3_PerFileStatus ==
    (phase = "verified" /\ ManifestParses) =>
        /\ "error" \notin DOMAIN vResult
        /\ Len(vResult.files) = Len(ParsedManifest.files)
        /\ \A i \in 1..Len(ParsedManifest.files) :
              vResult.files[i] = [path |-> ParsedManifest.files[i].path,
                                  status |-> ExpectedStatus(ParsedManifest.files[i])]
        /\ vResult.valid = (\A i \in 1..Len(vResult.files) : vResult.files[i].status = "ok")

\* An altered entry was reported corrupted, or a removed one missing, before
\* a file that is still reported ok.
C3_Witness ==
    /\ phase = "verified" /\ ManifestParses /\ tampered # NoPath
    /\ ~vResult.valid
    /\ \E i, j \in 1..Len(vResult.files) :
          i < j /\ vResult.files[i].status # "ok" /\ vResult.files[j].status = "ok"

\* The three checks of the claim, on the call that was made.
ChecksHold ==
    /\ rOptions.workspace # NoPath
    /\ ManifestParses
    /\ \A i \in 1..Len(ParsedManifest.files) :
          LET f == ParsedManifest.files[i]
          IN \E k \in 1..Len(archiveFile) :
                /\ archiveFile[k].name = getArchivePath(f.path, f.category)
                /\ f.path \in DOMAIN ParsedManifest.checksums
                /\ Sha256(archiveFile[k].content) = ParsedManifest.checksums[f.path]

\* C4: restoreBackup creates no directory and writes no file unless a
\* workspace target was supplied, the archive contains manifest.json and every
\* manifest file has an archive entry whose hash equals its recorded checksum;
\* if one of these checks fails the call rejects and the directories are as
\* they were before the call.
C4_NoWriteUnlessChecked ==
    phase = "restored" =>
        /\ fs # rBefore => ChecksHold
        /\ ~ChecksHold => (rResult.status = "error" /\ fs = rBefore)

\* A restore into a directory that holds files was refused by the integrity
\* check and left the directory alone.
C4_Witness ==
    /\ phase = "restored" /\ tampered # NoPath
    /\ rOptions.workspace = UsedTarget
    /\ ManifestParses /\ ~ChecksHold
    /\ rResult.status = "error"
    /\ fs = rBefore

\* C6: every file detectCredentialFiles reports that lies inside the workspace
\* is absent from the written manifest's files and checksums and is not stored
\* as a plaintext archive entry, whether or not credentials were requested;
\* when they were, the file's content is stored in the encrypted vault entry.
C6_CredentialFilesNotPlaintext ==
    (phase = "archived" /\ tampered = NoPath) =>
        LET manifest == bkResult.value.manifest
            reported == detectCredentialFiles(fs, WsRoot, Collation,
                                              bkOptions.includeCredential).value
        IN \A i \in 1..Len(reported) :
              LET abs == reported[i].originalPath
                  rel == relative(WsRoot, abs)
              IN IsPrefix(WsRoot, abs) =>
                    /\ rel \notin ManifestPaths(manifest)
                    /\ rel \notin DOMAIN manifest.checksums
                    /\ getArchivePath(rel, categorizeFile(rel)) \notin EntryNames(archiveFile)
                    /\ \A k \in 1..Len(archiveFile) :
                          archiveFile[k].content # fs[WsRoot].files[rel]
                    /\ bkOptions.withCredentials =>
                          LET opened == decryptCredentialVault(
                                  LastContent(archiveFile, <<"credentials.age">>), "pw1")
                          IN /\ opened.status = "ok"
                             /\ \E k \in 1..Len(opened.value.files) :
                                   opened.value.files[k] =
                                      [originalPath |-> abs,
                                       data |-> ToBase64(fs[WsRoot].files[rel])]

\* C10: after backing up a workspace whose TOOLS.md contains the workspace
\* root S and restoring to a target T different from S, the restored TOOLS.md
\* contains no occurrence of S, contains T, and its remapped flag is true.
C10_PathRemapScenario ==
    (/\ phase = "restored" /\ tampered = NoPath
     /\ rOptions.workspace \in Targets /\ ~rOptions.dryRun
     /\ bkOptions.exclude = <<>>
     /\ <<"TOOLS.md">> \in DOMAIN rBefore[WsRoot].files) =>
        LET T == rOptions.workspace
            restored == fs[T].files
        IN /\ rResult.status = "ok"
           /\ <<"TOOLS.md">> \in DOMAIN restored
           /\ ~Includes(restored[<<"TOOLS.md">>].t, WsRoot)
           /\ Includes(restored[<<"TOOLS.md">>].t, T)
           /\ \E i \in 1..Len(rResult.value.restoredFiles) :
                 rResult.value.restoredFiles[i] = [path |-> <<"TOOLS.md">>, remapped |-> TRUE]

(***************************************************************************)
(* Properties of the diff                                                  *)
(***************************************************************************)
DiffOldManifest == JsonParse(LastContent(dfOld, <<"manifest.json">>))
DiffNewManifest == createManifest(dfNew, WsRoot, Collation, <<>>)

\* The status the classification rule gives a path of either manifest.
DiffStatusOf(path) ==
    IF path \notin ManifestPaths(DiffOldManifest) THEN "added"
    ELSE IF path \notin ManifestPaths(DiffNewManifest) THEN "deleted"
    ELSE IF DiffOldManifest.checksums[path] = DiffNewManifest.checksums[path]
    THEN "unchanged"
    ELSE "modified"

\* C11: the diff of two manifests (archive against archive, archive against
\* live workspace) holds exactly one entry for each path of the union of the
\* two path sets and none for another path; the entry is added when the path
\* is only in the new side, deleted when only in the old side, unchanged when
\* in both with equal checksums, modified when in both with different
\* checksums.
C11_DiffClassification ==
    (dfPc \in {"archives", "workspace"} /\ dfOld # <<>>) =>
        /\ dfResult.status = "ok"
        /\ LET entries == dfResult.value.entries
               union == ManifestPaths(DiffOldManifest) \cup ManifestPaths(DiffNewManifest)
           IN /\ \A q \in union :
                    Cardinality({i \in 1..Len(entries) : entries[i].path = q}) = 1
              /\ \A i \in 1..Len(entries) :
                    /\ entries[i].path \in union
                    /\ entries[i].status = DiffStatusOf(entries[i].path)

C11_Witness ==
    /\ dfPc \in {"archives", "workspace"} /\ dfOld # <<>>
    /\ dfResult.status = "ok"
    /\ \A st \in {"added", "deleted", "modified"} :
          \E i \in 1..Len(dfResult.value.entries) : dfResult.value.entries[i].status = st

\* The segments String.split('\n') cuts a text into.
RECURSIVE SplitNewline(_)
SplitNewline(t) ==
    IF \A i \in 1..Len(t) : t[i] # "\n" THEN <<t>>
    ELSE LET at == CHOOSE i \in 1..Len(t) : t[i] = "\n" /\ \A j \in 1..(i - 1) : t[j] # "\n"
         IN <<SubSeq(t, 1, at - 1)>> \o SplitNewline(SubSeq(t, at + 1, Len(t)))

\* 0 for the empty text, else the number of segments with one trailing empty
\* segment dropped.
LineCount(t) ==
    IF t = <<>> THEN 0
    ELSE LET segments == SplitNewline(t)
         IN IF segments[Len(segments)] = <<>> THEN Len(segments) - 1 ELSE Len(segments)

DiffOldText(path) == LastContent(dfOld, getArchivePath(path, categorizeFile(path))).t

Diffed == dfPc \in {"archives", "workspace"} /\ dfOld # <<>> /\ dfResult.status = "ok"

C12_FreshDiffUnchanged ==
    (phase = "diffed" /\ tampered = NoPath) =>
        /\ dResult.status = "ok"
        /\ \A i \in 1..Len(dResult.value.entries) :
              dResult.value.entries[i].status = "unchanged"

(***************************************************************************)
(* Properties of the archive layout and of the dry run                     *)
(***************************************************************************)
\* C15: two distinct files of the manifest createBackup wrote never map to
\* the same archive entry name.
C15_ArchivePathOneToOne ==
    (phase = "archived" /\ tampered = NoPath) =>
        LET files == bkResult.value.manifest.files
        IN \A i, j \in 1..Len(files) :
              files[i].path # files[j].path =>
                  getArchivePath(files[i].path, files[i].category)
                      # getArchivePath(files[j].path, files[j].category)

DryRun == phase = "restored" /\ rOptions.workspace # NoPath /\ rOptions.dryRun

\* C16: a dry run of restoreBackup creates no directory, writes no file,
\* decrypts no vault, asks nothing and writes neither the restore marker nor
\* the fixup script; when it returns, it returns one RestoredFile for each
\* manifest file, with the remapped flag a real restore of the archive into
\* the target reports.
C16_DryRunNoEffect ==
    DryRun =>
        /\ fs = rBefore
        /\ rEffects = {}
        /\ rResult.status = "ok" =>
              /\ Len(rResult.value.restoredFiles) = Len(ParsedManifest.files)
              /\ \A i \in 1..Len(ParsedManifest.files) :
                    rResult.value.restoredFiles[i].path = ParsedManifest.files[i].path
              /\ \A env \in RestoreEnvs :
                    LET real == restoreBackup(rBefore, archiveFile,
                                              [rOptions EXCEPT !.dryRun = FALSE], env)
                    IN real.out.status = "ok" =>
                          real.out.value.restoredFiles = rResult.value.restoredFiles

\* A dry run of an archive that holds a vault and a file the restore rewrites,
\* into a directory that does not exist.
C16_Witness ==
    /\ DryRun /\ rResult.status = "ok"
    /\ rOptions.workspace = FreshTarget
    /\ \E k \in 1..Len(archiveFile) : archiveFile[k].name = <<"credentials.age">>
    /\ \E i \in 1..Len(rResult.value.restoredFiles) : rResult.value.restoredFiles[i].remapped

(***************************************************************************)
(* Properties of postRestoreRun                                            *)
(***************************************************************************)
\* The place of an event in the order of postRestoreRun.
RunRank(event) ==
    IF "prompt" \in DOMAIN event THEN 2
    ELSE IF event.cmd = "openclaw --version" THEN 1
    ELSE IF event.cmd = "openclaw cron add" THEN 3
    ELSE IF event.cmd = "openclaw gateway start" THEN 4
    ELSE 5
RunEventsOf(rank) == {i \in 1..Len(runLog) : RunRank(runLog[i]) = rank}
RunWrote(text) == \E i \in 1..Len(runOut) : runOut[i] = Line(text)
\* The workspace has a gateway config, and no apiKey of a provider section of
\* it is a string other than blank or the redaction marker.
RunNeedsKey ==
    /\ GatewayPath \in DOMAIN runStart
    /\ Parses(runStart[GatewayPath]) =>
          ~\E l \in Leaves(parseYaml(runStart[GatewayPath]), <<>>) :
              /\ l.path \in {<<"anthropic", "apiKey">>, <<"openai", "apiKey">>}
              /\ IsStr(l.val)
              /\ Trim(l.val.s) \notin {<<>>, REDACTED_VALUE}

\* C21: postRestoreRun checks that OpenClaw is installed, prompts for an API
\* key only if the gateway config holds no valid provider key, imports the
\* cron jobs, starts the gateway and checks its health, in this order; when
\* the install check fails it reports that and rejects with
\* OPENCLAW_NOT_FOUND, with no prompt, no import and no start; a failed
\* health check is a warning and the call does not fail.
C21_RunOrder ==
    /\ \A i, j \in 1..Len(runLog) : i < j => RunRank(runLog[i]) <= RunRank(runLog[j])
    /\ \A rank \in {1, 2, 4, 5} : Cardinality(RunEventsOf(rank)) <= 1
    /\ runLog # <<>> => runLog[1] = Command("openclaw --version")
    /\ RunEventsOf(2) # {} => RunNeedsKey
    /\ (runPc \in {"cron", "start", "health"} \/ RunEventsOf(3) # {}) =>
          (RunEventsOf(2) # {} <=> RunNeedsKey)
    /\ (runPc = "done" /\ ~runEnv.installed) =>
          /\ runResult = Err("OPENCLAW_NOT_FOUND")
          /\ RunWrote(NOT_FOUND_LINE)
          /\ runLog = <<Command("openclaw --version")>>
          /\ runFiles = runStart
    /\ (runPc = "done" /\ RunEventsOf(5) # {}) =>
          /\ runResult = Ok(Null)
          /\ RunEventsOf(4) # {}
          /\ IF runEnv.healthOk THEN RunWrote(RUNNING_LINE) ELSE RunWrote(HEALTH_FAILED_LINE)
    /\ (runPc = "done" /\ runResult = Ok(Null)) => RunEventsOf(5) # {}

\* A run that prompts for the key, imports two jobs, starts the gateway and
\* ends with a failed health check.
C21_Witness ==
    /\ runPc = "done" /\ runResult = Ok(Null)
    /\ ~runEnv.healthOk /\ RunWrote(HEALTH_FAILED_LINE)
    /\ RunEventsOf(2) # {} /\ Cardinality(RunEventsOf(3)) = 2

\* C22: when the backup exported N >= 1 cron jobs, a restore into a fresh
\* target followed by postRestoreRun issues N `openclaw cron add` calls, one
\* for each job in the order of the export, before the gateway is started.
C22_ExportedJobsImported ==
    (/\ runExported # Null
     /\ runExported.jobs # <<>>
     /\ runPc \in {"health", "done"}
     /\ RunEventsOf(4) # {}) =>
        /\ SelectSeq(runLog, LAMBDA event : RunRank(event) = 3)
             = [i \in 1..Len(runExported.jobs) |-> CronAdd(runExported.jobs[i])]
        /\ \A i \in RunEventsOf(3), j \in RunEventsOf(4) : i < j

(***************************************************************************)
(* Properties of the writes of restoreBackup and of the archive layout     *)
(***************************************************************************)
\* C24: in the file-writing phase of restoreBackup the bytes written for a
\* manifest file differ from its archived bytes only if its path is TOOLS.md,
\* config/gateway.yaml, HEARTBEAT.md or AGENTS.md; when the call returns,
\* RestoredFile.remapped of a manifest file is true exactly if the bytes
\* written for it differ from the archived bytes.
C24_OnlyRemapFilesRewritten ==
    phase = "restored" =>
        /\ \A k \in 1..Len(rWrites) :
              rWrites[k].written # rWrites[k].archived =>
                  rWrites[k].path \in PATH_REMAP_FILES
        /\ (rResult.status = "ok" /\ ~rOptions.dryRun) =>
              /\ Len(rResult.value.restoredFiles) = Len(rWrites)
              /\ \A k \in 1..Len(rWrites) :
                    /\ rResult.value.restoredFiles[k].path = rWrites[k].path
                    /\ rResult.value.restoredFiles[k].remapped
                          <=> (rWrites[k].written # rWrites[k].archived)

\* A restore wrote one file with other bytes than archived and one file as
\* archived.
C24_Witness ==
    /\ phase = "restored" /\ rResult.status = "ok"
    /\ \E k \in 1..Len(rWrites) : rWrites[k].written # rWrites[k].archived
    /\ \E k \in 1..Len(rWrites) : rWrites[k].written = rWrites[k].archived

\* C27: every file restoreBackup writes for a manifest file of an archive
\* that passes the integrity check is written inside the target directory.
C27_WritesInsideTarget ==
    phase = "restored" =>
        \A k \in 1..Len(rWrites) :
            /\ IsPrefix(rOptions.workspace, rWrites[k].at)
            /\ rWrites[k].at # rOptions.workspace

\* C28: when restoreBackup rejects, the directories are as they were before
\* the call.
C28_RejectLeavesTarget ==
    (phase = "restored" /\ rResult.status = "error") => fs = rBefore

\* The generated entries in the order createBackup packs them.
GeneratedOrder ==
    <<<<"config", "env-map.json">>, <<"config", "gateway.yaml">>,
      <<"config", "cron-jobs.json">>, <<"credentials-manifest.json">>,
      <<"credentials.age">>, <<"manifest.json">>, <<"README.md">>>>
Written == phase = "archived" /\ tampered = NoPath
WrittenNames == [i \in 1..Len(archiveFile) |-> archiveFile[i].name]
WrittenHead ==
    SubSeq(WrittenNames, 1, Len(archiveFile) - Len(bkResult.value.manifest.files))

\* C26 as stated: the manifest is the first entry, the README the second, the
\* remap table the third, the vault and its manifest follow and the classified
\* files come last.
C26_ManifestFirst ==
    Written =>
        /\ SubSeq(WrittenNames, 1, 3)
              = <<<<"manifest.json">>, <<"README.md">>, <<"config", "env-map.json">>>>
        /\ \A i \in 1..Len(archiveFile) :
              WrittenNames[i] \in {<<"credentials.age">>, <<"credentials-manifest.json">>}
                  => i \in {4, 5}

\* C26, amended: the generated entries are written in one order for every
\* run: the remap table, the exported gateway config and cron jobs if any,
\* the credentials manifest and the vault if credentials are included, the
\* manifest, the README; the classified files follow in manifest order.
C26_FixedEntryOrder ==
    Written =>
        LET files == bkResult.value.manifest.files
            n == Len(archiveFile) - Len(files)
        IN /\ n >= 3
           /\ WrittenHead = SelectSeq(GeneratedOrder,
                                LAMBDA name : \E i \in 1..n : WrittenNames[i] = name)
           /\ {<<"config", "env-map.json">>, <<"manifest.json">>, <<"README.md">>}
                 \subseteq {WrittenHead[i] : i \in 1..n}
           /\ bkOptions.withCredentials
                 <=> {<<"credentials-manifest.json">>, <<"credentials.age">>}
                        \subseteq {WrittenHead[i] : i \in 1..n}
           /\ \A k \in 1..Len(files) :
                 WrittenNames[n + k] = getArchivePath(files[k].path, files[k].category)

\* An archive with exported cron jobs, a vault and two workspace files.
C26_Witness ==
    /\ Written
    /\ bkOptions.withCredentials
    /\ \E i \in 1..Len(archiveFile) : archiveFile[i].name = <<"config", "cron-jobs.json">>
    /\ Len(bkResult.value.manifest.files) = 2

\* The entry names createBackup generates itself.
GeneratedNames ==
    {<<"manifest.json">>, <<"README.md">>, <<"config", "env-map.json">>,
     <<"config", "cron-jobs.json">>, <<"credentials-manifest.json">>,
     <<"credentials.age">>}

\* C30: no classified file of the archive createBackup wrote is stored under
\* the name of a generated entry, and the manifest and the remap table a
\* reader finds are the generated ones.
C30_NoGeneratedNameTaken ==
    (phase = "archived" /\ tampered = NoPath) =>
        LET files == bkResult.value.manifest.files
        IN /\ \A i \in 1..Len(files) :
                 getArchivePath(files[i].path, files[i].category) \notin GeneratedNames
           /\ ReadEntries(archiveFile)[<<"manifest.json">>]
                 = JsonStringify(bkResult.value.manifest)
           /\ ReadEntries(archiveFile)[<<"config", "env-map.json">>]
                 = generateEnvMapJson(createEnvMap(WsRoot, HomeDir))

(***************************************************************************)
(* Properties of the classifier                                            *)
(***************************************************************************)
Scanned == scPc \in {"scanned", "rescanned"} /\ scResult.status = "ok"

NoDuplicatePaths(entries) ==
    \A i, j \in 1..Len(entries) : entries[i].path = entries[j].path => i = j

\* The manifest's own bookkeeping: checksum keys, counters and byte total
\* against its files list.
ManifestConsistent(m) ==
    /\ DOMAIN m.checksums = {m.files[i].path : i \in 1..Len(m.files)}
    /\ NoDuplicatePaths(m.files)
    /\ m.contents.agent_files = CountCategory(m.files, "agent")
    /\ m.contents.config_files = CountCategory(m.files, "config")
    /\ m.contents.custom_skills = CountCategory(m.files, "skill")
    /\ m.contents.scripts = CountCategory(m.files, "script")
    /\ m.contents.total_bytes = SumSizes(m.files)

\* C13: in the manifest createManifest returns, the keys of checksums are
\* the set of the files' paths, no path is listed twice, each category
\* counter is the number of files of the category and total_bytes is the sum
\* of the recorded sizes.
C13_ManifestConsistent == Scanned => ManifestConsistent(scResult.value)

\* C14: two scans of one unchanged workspace with the same exclude and
\* include lists return the same files list and the same checksums, whatever
\* order the directory entries are enumerated in.
C14_ScanDeterministic ==
    (scPc = "rescanned" /\ scResult.status = "ok") =>
        /\ scAgain.status = "ok"
        /\ scAgain.value.files = scResult.value.files
        /\ scAgain.value.checksums = scResult.value.checksums

\* A path no component of which is a symbolic link.
ThroughNoSymlink(files, relPath) ==
    \A k \in 1..Len(relPath) : ~IsSymlink(files, SubSeq(relPath, 1, k))

\* C17: createManifest fails, or every file it lists is a regular file of the
\* workspace reached through no symbolic link, also when an included
\* directory is a symbolic link.
C17_NoSymlinkTraversed ==
    Scanned =>
        \A i \in 1..Len(scResult.value.files) :
            /\ IsFile(scTree, scResult.value.files[i].path)
            /\ ThroughNoSymlink(scTree, scResult.value.files[i].path)

UnderAllowedRoot(relPath, include) ==
    \/ Len(relPath) = 1
    \/ relPath[1] \in KNOWN_AGENT_DIRS
    \/ \E i \in 1..Len(include) : IsPrefix(include[i].dir, relPath)

\* C18: every listed path is a root-level file or lies under memory/,
\* config/, skills/, scripts/ or an included directory; no component of it is
\* a name of the default deny-set or ends in a denied extension, and it
\* matches no exclude pattern.
C18_AllowlistAndDenylist ==
    Scanned =>
        \A i \in 1..Len(scResult.value.files) :
            LET relPath == scResult.value.files[i].path
            IN /\ UnderAllowedRoot(relPath, scInclude)
               /\ \A k \in 1..Len(relPath) : ~isDefaultExcluded(relPath[k])
               /\ ~matchesExcludePattern(relPath, relPath[Len(relPath)], scExclude)

(***************************************************************************)
(* Specifications                                                          *)
(***************************************************************************)
Spec == Init /\ [][Next]_vars
InitRemap == RemapInit /\ CryptoIdle /\ CredIdle /\ MainIdle /\ DiffIdle /\ ScanIdle /\ OpenIdle /\ RunIdle /\ CliIdle
SpecRemap == InitRemap /\ [][RemapNext]_vars
InitCrypto == CryptoInit /\ RemapIdle /\ CredIdle /\ MainIdle /\ DiffIdle /\ ScanIdle /\ OpenIdle /\ RunIdle /\ CliIdle
SpecCrypto == InitCrypto /\ [][CryptoNext]_vars
InitCred == CredInit /\ RemapIdle /\ CryptoIdle /\ MainIdle /\ DiffIdle /\ ScanIdle /\ OpenIdle /\ RunIdle /\ CliIdle
InitDiff == DiffInit /\ RemapIdle /\ CryptoIdle /\ CredIdle /\ MainIdle /\ ScanIdle /\ OpenIdle /\ RunIdle /\ CliIdle
SpecDiff == InitDiff /\ [][DiffNext]_vars
InitScan == ScanInit /\ RemapIdle /\ CryptoIdle /\ CredIdle /\ MainIdle /\ DiffIdle /\ OpenIdle /\ RunIdle /\ CliIdle
SpecScan == InitScan /\ [][ScanNext]_vars
InitOpen == OpenInit /\ RemapIdle /\ CryptoIdle /\ CredIdle /\ MainIdle /\ DiffIdle /\ ScanIdle /\ RunIdle /\ CliIdle
SpecOpen == InitOpen /\ [][OpenNext]_vars
SpecCred == InitCred /\ [][CredNext]_vars
InitRun == RunInit /\ RemapIdle /\ CryptoIdle /\ CredIdle /\ MainIdle /\ DiffIdle /\ ScanIdle /\ OpenIdle /\ CliIdle
SpecRun == InitRun /\ [][RunNext]_vars
InitCli == CliInit /\ RemapIdle /\ CryptoIdle /\ CredIdle /\ MainIdle /\ DiffIdle /\ ScanIdle /\ OpenIdle /\ RunIdle
SpecCli == InitCli /\ [][CliNext]_vars

====
